---- MODULE Spec2Model ----
(***************************************************************************)
(* Model of the ArchVisier document pipeline:                              *)
(*   - processing/ocr.py: extract_text_with_ocr (one file-task) and        *)
(*     extract_texts_with_ocr_parallel (thread pool, cancel event),        *)
(*   - gui/processing_worker.py: ProcessingWorker.run / stop and           *)
(*     generate_new_filename,                                              *)
(*   - app_session_manager.py / gui/pdf_processor_app.py: the operations   *)
(*     that touch the numbering counters of a session.                     *)
(* Strings that the code edits character by character are sequences of     *)
(* one-character strings.                                                  *)
(***************************************************************************)
EXTENDS Integers, Sequences, FiniteSets, TLC

\* ---------------------------------------------------------------- bounds
NFiles == 2
MaxBatchPages == 2
MaxWorkers == 2

VARIABLES
    \* --- the batch (inputs of one run)
    docs,            \* per sorted path: [pages, failAt]
    max_workers,     \* settings.ocr_workers or os.cpu_count()
    \* --- ProcessingWorker.run (the QThread)
    rpc,             \* position of run()
    running,         \* self._running
    cancel_event,    \* threading.Event of the run
    progress_queue,  \* Queue of ("page_done", 1)
    total_pages,     \* run()'s own pre-pass sum
    pages_done,      \* aggregate kept by the draining loop
    progress_log,    \* last (pages_done, total_pages) given to progress.emit
    results_holder,  \* results_holder.get("res", [])
    ext_idx,         \* position of the for loop over zip(pdf_paths, ocr_results)
    rows,            \* results list handed to finished.emit
    finished_emits,  \* number of finished.emit calls
    counters,        \* self.counters
    \* --- extract_texts_with_ocr_parallel (the ocr_task thread)
    opc,             \* position of the call
    results,         \* results list of the call
    total_pages_ocr, \* total_pages of the call
    futures,         \* per path: state of its future
    fresult,         \* per path: value of future.result()
    work_queue,      \* executor._work_queue
    next_submit,     \* position of the submitting comprehension
    yielded,         \* futures already yielded by as_completed
    sd_wait,         \* argument wait of executor.shutdown
    sd_cancel,       \* argument cancel_futures of executor.shutdown
    observed,        \* the call has seen cancel_event.is_set() true
    \* --- extract_text_with_ocr (one per file-task)
    tpc,             \* per path: position inside the task
    tpage,           \* per path: page being processed (1-based)
    full_text,       \* per path: pages recognised so far
    emitted,         \* per path: events this task has put on the queue
    \* --- the session (SessionManager and PdfProcessorApp)
    sa_counters,     \* session_manager.sa_counters
    work_mode,       \* app.work_mode / worker.work_mode
    signature_text,  \* text of app.signature_edit
    target_files,    \* files of the target directory: name -> copied path
    \* --- record of the generate_new_filename calls made so far
    call_log,        \* sequence of [doc_type, name]
    start_counters,  \* the counters map before the first recorded call
    last_op,         \* the session operation that ran last
    \* --- extract_info_from_text (one call)
    ex_text,         \* text: the text of the document
    ex_info,         \* info: the record being filled
    epc,             \* position of the call
    nlp_model,       \* get_nlp_model() returned a model
    llm_processor,   \* an LLM processor was passed in
    \* --- DocumentLLMProcessor.extract_smart_metadata
    llm_response,    \* what the model answered
    llm_results,     \* the value the call returned
    \* --- ContextAwareDocumentAnalyzer
    document_memory,     \* self.document_memory
    corrections_memory,  \* self.corrections_memory
    memory_file,         \* content of the JSON file of save_memory
    suggestion           \* the last value find_relevant_corrections returned

batchVars == <<docs, max_workers>>
runVars == <<rpc, running, cancel_event, progress_queue, total_pages, pages_done,
             progress_log, results_holder, ext_idx, rows, finished_emits, counters>>
ocrVars == <<opc, results, total_pages_ocr, futures, fresult, work_queue,
             next_submit, yielded, sd_wait, sd_cancel, observed>>
taskVars == <<tpc, tpage, full_text, emitted>>
sessVars == <<sa_counters, work_mode, signature_text, target_files>>
logVars == <<call_log, start_counters, last_op>>
chainVars == <<ex_text, ex_info, epc, nlp_model, llm_processor>>
memVars == <<document_memory, corrections_memory, memory_file, suggestion>>
ctxVars == <<chainVars, llm_response, llm_results, memVars>>
vars == <<batchVars, runVars, ocrVars, taskVars, sessVars, logVars, ctxVars>>

\* ------------------------------------------------------------ OCR results
\* Python's None for an element of the results list; a result is the tuple
\* <<text, status>>.
None == <<>>

SUKCES == "Sukces"
BLAD_TECHNICZNY == "BLAD TECHNICZNY OCR: "
BLAD_PUSTY == "BLAD: Plik PDF jest pusty lub uszkodzony."
TRACEBACK == "Traceback (most recent call last): ..."

\* A text is its diagnostic prefix, the recognised pages (page k of path p is
\* <<p, k>>) and the embedded exception (<<p, k>>: recognition of page k of p).
MkText(diag, body, err) == [diag |-> diag, body |-> body, err |-> err]
EmptyText == MkText("", <<>>, <<>>)

N == Len(docs)
Paths == 1..N

\* _count_pages(path): the page count pdfinfo reports; a document that cannot
\* be read has no pages and counts 0
CountPages(doc) == doc.pages

RECURSIVE SumCounts(_, _)
SumCounts(d, i) == IF i = 0 THEN 0 ELSE CountPages(d[i]) + SumCounts(d, i - 1)

\* sum(_count_pages(path) for path in pdf_paths)
CountPagesSum(d) == SumCounts(d, Len(d))

\* ------------------------------------------------------------ the inputs
\* A document: its page count (0: empty or corrupt) and the page whose
\* recognition raises an engine exception (0: none).
DocKinds == {[pages |-> p, failAt |-> f] : p \in 0..MaxBatchPages, f \in 0..MaxBatchPages}

ValidDoc(d) == d.failAt <= d.pages

RECURSIVE SumPages(_, _)
SumPages(d, i) == IF i = 0 THEN 0 ELSE d[i].pages + SumPages(d, i - 1)

ValidBatch(b) ==
    /\ \A i \in 1..Len(b) : ValidDoc(b[i])
    /\ SumPages(b, Len(b)) <= MaxBatchPages

Batches == UNION {{b \in [1..n -> DocKinds] : ValidBatch(b)} : n \in 1..NFiles}

PAGE_DONE == <<"page_done", 1>>

\* ------------------------------------------------- extract_text_with_ocr
\* the components of the empty-document result the other way round
EmptyPdfResultSwapped == <<EmptyText, BLAD_PUSTY>>

\* return "BLAD: Plik PDF jest pusty lub uszkodzony.", ""
EmptyPdfResult == <<MkText(BLAD_PUSTY, <<>>, <<>>), "">>

\* an except branch that drops the message of the exception
TechnicalErrorResultBare(p, k) == <<MkText(BLAD_TECHNICZNY, <<>>, <<>>), TRACEBACK>>

\* return f"BLAD TECHNICZNY OCR: {e}", traceback.format_exc()
TechnicalErrorResult(p, k) == <<MkText(BLAD_TECHNICZNY, <<>>, <<p, k>>), TRACEBACK>>

\* return full_text, "Sukces"
SuccessResult(text) == <<MkText("", text, <<>>), SUKCES>>

\* the future of task p completes with value r
Complete(p, r) ==
    /\ futures' = [futures EXCEPT ![p] = "finished"]
    /\ fresult' = [fresult EXCEPT ![p] = r]
    /\ tpc' = [tpc EXCEPT ![p] = "done"]

RunningTasks == {p \in Paths : futures[p] = "running"}

\* where extract_text_with_ocr stands after convert_from_path gave n images
AfterConvert(n) == IF n = 0 THEN "empty" ELSE "recog"

\* a pool thread takes the next work item and enters extract_text_with_ocr,
\* which converts the document to images
TaskStart(p) ==
    /\ work_queue /= <<>>
    /\ Head(work_queue) = p
    /\ Cardinality(RunningTasks) < max_workers
    /\ work_queue' = Tail(work_queue)
    /\ futures' = [futures EXCEPT ![p] = "running"]
    /\ tpc' = [tpc EXCEPT ![p] = AfterConvert(docs[p].pages)]
    /\ tpage' = [tpage EXCEPT ![p] = 1]
    /\ UNCHANGED <<sessVars, logVars, ctxVars, batchVars, runVars, opc, results, total_pages_ocr,
                   fresult, next_submit, yielded, sd_wait, sd_cancel, observed,
                   full_text, emitted>>

\* if not images: return ...
TaskReturnEmpty(p) ==
    /\ futures[p] = "running"
    /\ tpc[p] = "empty"
    /\ Complete(p, EmptyPdfResult)
    /\ UNCHANGED <<sessVars, logVars, ctxVars, batchVars, runVars, opc, results, total_pages_ocr,
                   work_queue, next_submit, yielded, sd_wait, sd_cancel, observed,
                   tpage, full_text, emitted>>

\* one page of the loop up to full_text += text_page + "\n": preprocessing and
\* the one (fixed language) or two ("auto") image_to_string calls; an engine
\* exception in any of them ends the task in the except branch
TaskRecog(p) ==
    /\ futures[p] = "running"
    /\ tpc[p] = "recog"
    /\ IF docs[p].failAt = tpage[p]
       THEN /\ Complete(p, TechnicalErrorResult(p, tpage[p]))
            /\ UNCHANGED full_text
       ELSE /\ full_text' = [full_text EXCEPT ![p] = Append(@, <<p, tpage[p]>>)]
            /\ tpc' = [tpc EXCEPT ![p] = "put"]
            /\ UNCHANGED <<futures, fresult>>
    /\ UNCHANGED <<sessVars, logVars, ctxVars, batchVars, runVars, opc, results, total_pages_ocr,
                   work_queue, next_submit, yielded, sd_wait, sd_cancel, observed,
                   tpage, emitted>>

\* a page loop that reports a page twice
PutPageDoneTwice(q) == q \o <<PAGE_DONE, PAGE_DONE>>

\* progress_queue.put(("page_done", 1)) for the page just recognised
PutPageDone(q) == Append(q, PAGE_DONE)

\* where the page loop goes after the put for page k of a document of n pages
AfterPut(k, n) == IF k = n THEN "ret" ELSE "recog"

TaskPut(p) ==
    /\ futures[p] = "running"
    /\ tpc[p] = "put"
    /\ progress_queue' = PutPageDone(progress_queue)
    /\ emitted' = [emitted EXCEPT ![p] = @ + Len(progress_queue') - Len(progress_queue)]
    /\ tpc' = [tpc EXCEPT ![p] = AfterPut(tpage[p], docs[p].pages)]
    /\ tpage' = [tpage EXCEPT ![p] = IF tpage[p] = docs[p].pages THEN @ ELSE @ + 1]
    /\ UNCHANGED <<sessVars, logVars, ctxVars, batchVars, rpc, running, cancel_event, total_pages,
                   pages_done, progress_log, results_holder, ext_idx, rows,
                   finished_emits, counters, ocrVars, full_text>>

\* return full_text, "Sukces"
TaskReturn(p) ==
    /\ futures[p] = "running"
    /\ tpc[p] = "ret"
    /\ Complete(p, SuccessResult(full_text[p]))
    /\ UNCHANGED <<sessVars, logVars, ctxVars, batchVars, runVars, opc, results, total_pages_ocr,
                   work_queue, next_submit, yielded, sd_wait, sd_cancel, observed,
                   tpage, full_text, emitted>>

\* ---------------------------------------- extract_texts_with_ocr_parallel
\* results = [None] * len(pdf_paths)
NewResults(n) == [i \in 1..n |-> None]

\* a collector that appends instead of storing at the index of the future
StoreResultAppended(res, idx, r) == Append(res, r)

\* results[idx] = future.result()
StoreResult(res, idx, r) == [res EXCEPT ![idx] = r]

\* a call that does not look at the cancel event before submitting
OcrPrepassUnchecked ==
    /\ opc = "prepass"
    /\ total_pages_ocr' = CountPagesSum(docs)
    /\ results' = NewResults(N)
    /\ opc' = "submit"
    /\ UNCHANGED <<sessVars, logVars, ctxVars, batchVars, runVars, futures, fresult, work_queue,
                   next_submit, yielded, sd_wait, sd_cancel, observed, taskVars>>

\* total_pages = sum(...); results = [None] * len(pdf_paths);
\* if cancel_event.is_set(): return results, total_pages
OcrPrepass ==
    /\ opc = "prepass"
    /\ total_pages_ocr' = CountPagesSum(docs)
    /\ results' = NewResults(N)
    /\ observed' = cancel_event
    /\ opc' = IF cancel_event THEN "return" ELSE "submit"
    /\ UNCHANGED <<sessVars, logVars, ctxVars, batchVars, runVars, futures, fresult, work_queue, next_submit,
                   yielded, sd_wait, sd_cancel, taskVars>>

\* one executor.submit(extract_text_with_ocr, path, ...) of the comprehension
OcrSubmit ==
    /\ opc = "submit"
    /\ next_submit <= N
    /\ futures' = [futures EXCEPT ![next_submit] = "pending"]
    /\ work_queue' = Append(work_queue, next_submit)
    /\ next_submit' = next_submit + 1
    /\ opc' = IF next_submit = N THEN "collect" ELSE "submit"
    /\ UNCHANGED <<sessVars, logVars, ctxVars, batchVars, runVars, results, total_pages_ocr, fresult, yielded,
                   sd_wait, sd_cancel, observed, taskVars>>

\* one iteration of "for future in as_completed(futures)": the generator
\* yields a completed future; if cancel_event.is_set(): break; otherwise the
\* result is stored at the index of that future
OcrCollect(p) ==
    /\ opc = "collect"
    /\ p \in Paths \ yielded
    /\ futures[p] = "finished"
    /\ yielded' = yielded \cup {p}
    /\ IF cancel_event
       THEN /\ observed' = TRUE
            /\ opc' = "shutdown"
            /\ UNCHANGED results
       ELSE /\ results' = StoreResult(results, p, fresult[p])
            /\ UNCHANGED <<observed, opc>>
    /\ UNCHANGED <<sessVars, logVars, ctxVars, batchVars, runVars, total_pages_ocr, futures, fresult, work_queue,
                   next_submit, sd_wait, sd_cancel, taskVars>>

\* as_completed is exhausted: the for loop ends and control enters finally
OcrCollectDone ==
    /\ opc = "collect"
    /\ yielded = Paths
    /\ opc' = "shutdown"
    /\ UNCHANGED <<sessVars, logVars, ctxVars, batchVars, runVars, results, total_pages_ocr, futures, fresult,
                   work_queue, next_submit, yielded, sd_wait, sd_cancel, observed,
                   taskVars>>

\* the two arguments of executor.shutdown are two reads of the event
OcrShutdownWaitArg ==
    /\ opc = "shutdown"
    /\ sd_wait' = ~cancel_event
    /\ opc' = "shutdown_cancel_arg"
    /\ UNCHANGED <<sessVars, logVars, ctxVars, batchVars, runVars, results, total_pages_ocr, futures, fresult,
                   work_queue, next_submit, yielded, sd_cancel, observed, taskVars>>

OcrShutdownCancelArg ==
    /\ opc = "shutdown_cancel_arg"
    /\ sd_cancel' = cancel_event
    /\ opc' = "drain"
    /\ UNCHANGED <<sessVars, logVars, ctxVars, batchVars, runVars, results, total_pages_ocr, futures, fresult,
                   work_queue, next_submit, yielded, sd_wait, observed, taskVars>>

\* shutdown(cancel_futures=True) takes the pending work items off the queue
\* one by one and cancels their futures; pool threads take items concurrently
OcrDrain ==
    /\ opc = "drain"
    /\ IF sd_cancel /\ work_queue /= <<>>
       THEN /\ futures' = [futures EXCEPT ![Head(work_queue)] = "cancelled"]
            /\ work_queue' = Tail(work_queue)
            /\ UNCHANGED opc
       ELSE /\ opc' = "wait"
            /\ UNCHANGED <<futures, work_queue>>
    /\ UNCHANGED <<sessVars, logVars, ctxVars, batchVars, runVars, results, total_pages_ocr, fresult,
                   next_submit, yielded, sd_wait, sd_cancel, observed, taskVars>>

\* shutdown(wait=True) joins the pool threads; wait=False returns at once
ShutdownMayReturn(w) == w => (RunningTasks = {} /\ work_queue = <<>>)

OcrShutdownWait ==
    /\ opc = "wait"
    /\ ShutdownMayReturn(sd_wait)
    /\ opc' = "return"
    /\ UNCHANGED <<sessVars, logVars, ctxVars, batchVars, runVars, results, total_pages_ocr, futures, fresult,
                   work_queue, next_submit, yielded, sd_wait, sd_cancel, observed,
                   taskVars>>

\* return results, total_pages; ocr_task stores res and the thread ends
OcrReturn ==
    /\ opc = "return"
    /\ results_holder' = results
    /\ opc' = "dead"
    /\ UNCHANGED <<sessVars, logVars, ctxVars, batchVars, rpc, running, cancel_event, progress_queue, total_pages,
                   pages_done, progress_log, ext_idx, rows, finished_emits, counters,
                   results, total_pages_ocr, futures, fresult, work_queue,
                   next_submit, yielded, sd_wait, sd_cancel, observed, taskVars>>

\* ------------------------------------------------------------- strings
Digits == <<"0", "1", "2", "3", "4", "5", "6", "7", "8", "9">>
LowerCase == <<"a", "b", "c", "d", "e", "f", "g", "h", "i", "j", "k", "l", "m",
               "n", "o", "p", "q", "r", "s", "t", "u", "v", "w", "x", "y", "z">>
UpperCase == <<"A", "B", "C", "D", "E", "F", "G", "H", "I", "J", "K", "L", "M",
               "N", "O", "P", "Q", "R", "S", "T", "U", "V", "W", "X", "Y", "Z">>

IsDigit(c) == \E i \in 1..10 : Digits[i] = c
DigitValue(c) == (CHOOSE i \in 1..10 : Digits[i] = c) - 1

\* str(num)
RECURSIVE Str(_)
Str(n) == IF n < 10 THEN <<Digits[n + 1]>> ELSE Str(n \div 10) \o <<Digits[(n % 10) + 1]>>

\* int(text) of a string of digits
RECURSIVE ParseInt(_)
ParseInt(t) == IF t = <<>> THEN 0 ELSE 10 * ParseInt(SubSeq(t, 1, Len(t) - 1)) + DigitValue(t[Len(t)])

\* text.isdigit()
IsDigitStr(t) == t /= <<>> /\ \A i \in 1..Len(t) : IsDigit(t[i])

RECURSIVE Filter(_, _)
Filter(t, bad) ==
    IF t = <<>> THEN <<>>
    ELSE (IF Head(t) \in bad THEN <<>> ELSE <<Head(t)>>) \o Filter(Tail(t), bad)

RECURSIVE LStrip(_)
LStrip(t) == IF t /= <<>> /\ Head(t) = " " THEN LStrip(Tail(t)) ELSE t

RECURSIVE RStrip(_)
RStrip(t) == IF t /= <<>> /\ t[Len(t)] = " " THEN RStrip(SubSeq(t, 1, Len(t) - 1)) ELSE t

\* str.strip()
Strip(t) == RStrip(LStrip(t))

\* str.replace(a, b) for one-character a and b
Replace(t, a, b) == [i \in 1..Len(t) |-> IF t[i] = a THEN b ELSE t[i]]

UPPER_OF == [c \in {LowerCase[i] : i \in 1..26} |-> UpperCase[CHOOSE i \in 1..26 : LowerCase[i] = c]]

UpperChar(c) == IF c \in DOMAIN UPPER_OF THEN UPPER_OF[c] ELSE c

\* str.upper()
Upper(t) == [i \in 1..Len(t) |-> UpperChar(t[i])]

\* a slice that keeps the whole text
PrefixWhole(t, n) == t

\* t[:n]
Prefix(t, n) == SubSeq(t, 1, IF Len(t) < n THEN Len(t) ELSE n)

\* ------------------------------------------------- generate_new_filename
LP == <<"L", "P">>
KP == <<"K", "P">>
KW == <<"K", "W">>
SA == <<"S", "A">>
PDF_EXT == <<".", "p", "d", "f">>
FALLBACK_PREFIX == <<"d", "o", "k", "u", "m", "e", "n", "t", "_", "d", "o", "_", "w", "e", "r", "y", "f", "i", "k", "a", "c", "j", "i", "_">>
CLEAN_CHARS == {"\\", "/", "*", "?", ":", "\"", "<", ">", "|"}
SENDER_LIMIT == 30
SUBJECT_LIMIT == 50

\* one key for every mode
CounterKeyShared(doc_type) == LP

\* key = doc_type or "LP"
CounterKey(doc_type) == IF doc_type = <<>> THEN LP ELSE doc_type

\* counters.get(key, 0)
CounterGet(c, key) == IF key \in DOMAIN c THEN c[key] ELSE 0

\* counters[key] = v
CounterPut(c, key, v) == [k \in DOMAIN c \cup {key} |-> IF k = key THEN v ELSE c[k]]

\* numbering that starts again at 1 on every call
NextNumRestart(c, doc_type) == 1

\* num = counters.get(key, 0) + 1
NextNum(c, doc_type) == CounterGet(c, CounterKey(doc_type)) + 1

\* counters[key] = num: the map the call leaves behind
CountersAfter(c, doc_type) == CounterPut(c, CounterKey(doc_type), NextNum(c, doc_type))

\* re.sub(r"[\\/*?:\"<>|]", "", text).strip()
Clean(t) == Strip(Filter(t, CLEAN_CHARS))

RECURSIVE Join(_, _)
Join(parts, sep) ==
    IF parts = <<>> THEN <<>>
    ELSE IF Len(parts) = 1 THEN parts[1]
    ELSE parts[1] \o sep \o Join(Tail(parts), sep)

NonEmpty(parts) == SelectSeq(parts, LAMBDA x : x /= <<>>)

\* the file name built for the number num
BuildName(info, num) ==
    LET sygnatura == Replace(Clean(info.sygnatura_sprawy), " ", "_")
        numer == Replace(Clean(info.numer_dokumentu), " ", "-")
        nadawca == Prefix(Replace(Upper(Clean(info.nadawca_odbiorca)), " ", "-"), SENDER_LIMIT)
        typ == Replace(Upper(Clean(info.typ_dokumentu)), " ", "-")
        w_sprawie == Prefix(Replace(Clean(info.w_sprawie), " ", "-"), SUBJECT_LIMIT)
        hyphen_parts == NonEmpty(<<numer, nadawca, typ, w_sprawie>>)
        name1 == Str(num) \o (IF sygnatura /= <<>> THEN <<"_">> \o sygnatura ELSE <<>>)
        name == name1 \o (IF hyphen_parts /= <<>> THEN <<"_">> \o Join(hyphen_parts, <<"-">>) ELSE <<>>)
    IN  IF name = Str(num) THEN FALLBACK_PREFIX \o Str(num) \o PDF_EXT
        ELSE name \o PDF_EXT

\* the value returned by generate_new_filename(info, doc_type, counters)
GenerateNewFilename(info, doc_type, c) == BuildName(info, NextNum(c, doc_type))

\* ------------------------------------------------------ handle_file_copy
SAFE_EXTRA == {"_", ".", "-"}

\* the characters of [A-Za-z0-9_.-] (re.ASCII)
SAFE_CHARS ==
    {LowerCase[i] : i \in 1..26} \cup {UpperCase[i] : i \in 1..26}
        \cup {Digits[i] : i \in 1..10} \cup SAFE_EXTRA

IsSafeChar(c) == c \in SAFE_CHARS

\* re.sub(r"[^\w.-]", "_", safe_name, flags=re.ASCII)
Sanitize(t) == [i \in 1..Len(t) |-> IF IsSafeChar(t[i]) THEN t[i] ELSE "_"]

\* Path(filename).name: the part after the last separator
RECURSIVE PathName(_)
PathName(t) ==
    IF \E i \in 1..Len(t) : t[i] = "/"
    THEN PathName(SubSeq(t, (CHOOSE i \in 1..Len(t) : t[i] = "/") + 1, Len(t)))
    ELSE t

DISALLOWED_CHARS == {"<", ">", ":", "\"", "/", "\\", "|", "?", "*", "\n"}

\* DISALLOWED_CHARS.search(safe_name)
HasDisallowed(t) == \E i \in 1..Len(t) : t[i] \in DISALLOWED_CHARS

SafeName(filename) == Sanitize(PathName(filename))

\* the name returned by handle_file_copy (<<>> for None) when shutil.copy2
\* succeeds (ok) or raises
HandleFileCopy(filename, ok) ==
    LET safe_name == SafeName(filename)
    IN  IF HasDisallowed(safe_name) \/ ~ok THEN <<>> ELSE safe_name

\* the target directory once shutil.copy2 has been asked for the name copied
\* (<<>>: no copy was made); with the name ".." the destination is the parent
\* of dest_dir, a directory, and copy2 writes the copy into it under the name
\* of src
FilesWithCopy(files, src, copied) ==
    IF copied = <<>> \/ copied = <<".", ".">> THEN files
    ELSE [n \in DOMAIN files \cup {copied} |-> IF n = copied THEN src ELSE files[n]]

\* the target directory after handle_file_copy(src, dest, filename)
FilesAfterCopy(files, src, filename, ok) ==
    FilesWithCopy(files, src, HandleFileCopy(filename, ok))

\* -------------------------------------------------- extract_info_from_text
\* the records the extraction chain hands to generate_new_filename
EmptyInfo ==
    [sygnatura_sprawy |-> <<>>, numer_dokumentu |-> <<>>, nadawca_odbiorca |-> <<>>,
     typ_dokumentu |-> <<>>, w_sprawie |-> <<>>]

SampleInfo ==
    [sygnatura_sprawy |-> <<"S", " ", "1">>, numer_dokumentu |-> <<"7", "/", "x">>,
     nadawca_odbiorca |-> <<"m", "f">>, typ_dokumentu |-> <<>>,
     w_sprawie |-> <<" ", "w", " ", "s", "?">>]

Infos == {EmptyInfo, SampleInfo}

\* what one iteration of the loop over the files meets: the record found by
\* the extraction chain and whether shutil.copy2 succeeds
FileOutcomes == {<<EmptyInfo, TRUE>>, <<SampleInfo, TRUE>>, <<SampleInfo, FALSE>>}

\* ---------------------------------------------------- ProcessingWorker.run
\* for each outcome and each number a batch can reach: the name
\* generate_new_filename builds and what handle_file_copy returns for it
RunTable ==
    [o \in FileOutcomes |->
        [num \in 1..(NFiles + 1) |->
            [new_name |-> BuildName(o[1], num),
             safe_name |-> HandleFileCopy(BuildName(o[1], num), o[2])]]]

\* the counters map the worker was given (start_processing)
WorkerCounters == IF work_mode = SA THEN sa_counters ELSE counters

\* thread.start(); progress.emit(0, total_pages)
RunStart ==
    /\ rpc = "start"
    /\ total_pages' = CountPagesSum(docs)
    /\ pages_done' = 0
    /\ opc' = "prepass"
    /\ progress_log' = <<0, CountPagesSum(docs)>>
    /\ rpc' = "loop"
    /\ UNCHANGED <<sessVars, logVars, ctxVars, batchVars, running, cancel_event, progress_queue,
                   results_holder, ext_idx, rows, finished_emits, counters,
                   results, total_pages_ocr, futures, fresult, work_queue,
                   next_submit, yielded, sd_wait, sd_cancel, observed, taskVars>>

\* while thread.is_alive() or not progress_queue.empty():
RunLoopTest ==
    /\ rpc = "loop"
    /\ rpc' = IF opc /= "dead" \/ progress_queue /= <<>> THEN "get" ELSE "join"
    /\ UNCHANGED <<sessVars, logVars, ctxVars, batchVars, running, cancel_event, progress_queue,
                   total_pages, pages_done, progress_log, results_holder, ext_idx,
                   rows, finished_emits, counters, ocrVars, taskVars>>

\* progress_queue.get(timeout=0.1) returns an event, or raises Empty when the
\* queue stayed empty; then: if not self._running: cancel_event.set()
RunLoopGet ==
    /\ rpc = "get"
    /\ IF progress_queue /= <<>>
       THEN /\ progress_queue' = Tail(progress_queue)
            /\ pages_done' = IF Head(progress_queue)[1] = "page_done"
                             THEN pages_done + Head(progress_queue)[2] ELSE pages_done
            /\ progress_log' = <<pages_done', total_pages>>
       ELSE UNCHANGED <<progress_queue, pages_done, progress_log>>
    /\ cancel_event' = (cancel_event \/ ~running)
    /\ rpc' = "loop"
    /\ UNCHANGED <<sessVars, logVars, ctxVars, batchVars, running, total_pages, results_holder,
                   ext_idx, rows, finished_emits, counters, ocrVars, taskVars>>

\* thread.join(); ocr_results = results_holder.get("res", [])
RunJoin ==
    /\ rpc = "join"
    /\ opc = "dead"
    /\ ext_idx' = 1
    /\ rpc' = "extract"
    /\ UNCHANGED <<sessVars, logVars, ctxVars, batchVars, running, cancel_event, progress_queue,
                   total_pages, pages_done, progress_log, results_holder, rows,
                   finished_emits, counters, ocrVars, taskVars>>

Min(a, b) == IF a < b THEN a ELSE b

\* len(zip(pdf_paths, ocr_results))
ZipLen == Min(N, Len(results_holder))

\* one iteration of the for loop: extract_info_from_text,
\* generate_new_filename, handle_file_copy, results.append
RunExtractFile ==
    /\ rpc = "extract"
    /\ ext_idx <= ZipLen
    /\ \E o \in FileOutcomes :
         LET info == o[1]
             made == RunTable[o][NextNum(WorkerCounters, work_mode)]
             new_name == made.new_name
             safe_name == made.safe_name
         IN  /\ IF work_mode = SA
                THEN /\ sa_counters' = CountersAfter(sa_counters, work_mode)
                     /\ UNCHANGED counters
                ELSE /\ counters' = CountersAfter(counters, work_mode)
                     /\ UNCHANGED sa_counters
             /\ target_files' = FilesWithCopy(target_files, ext_idx, safe_name)
             /\ rows' = Append(rows, [path |-> ext_idx, idx |-> ext_idx,
                                      new_name |-> IF safe_name /= <<>> THEN safe_name
                                                   ELSE new_name,
                                      info |-> info])
    /\ ext_idx' = ext_idx + 1
    /\ UNCHANGED <<work_mode, signature_text, logVars, ctxVars, batchVars, rpc, running,
                   cancel_event, progress_queue, total_pages, pages_done, progress_log,
                   results_holder, finished_emits, ocrVars, taskVars>>

\* self.finished.emit(results)
RunFinished ==
    /\ rpc = "extract"
    /\ ext_idx > ZipLen
    /\ finished_emits' = finished_emits + 1
    /\ rpc' = "done"
    /\ UNCHANGED <<sessVars, logVars, ctxVars, batchVars, running, cancel_event, progress_queue,
                   total_pages, pages_done, progress_log, results_holder, ext_idx,
                   rows, counters, ocrVars, taskVars>>

\* ProcessingWorker.stop
Stop ==
    /\ running
    /\ rpc /= "done"
    /\ running' = FALSE
    /\ UNCHANGED <<sessVars, logVars, ctxVars, batchVars, rpc, cancel_event, progress_queue,
                   total_pages, pages_done, progress_log, results_holder, ext_idx,
                   rows, finished_emits, counters, ocrVars, taskVars>>

\* ------------------------------------------------ the run of one batch
EmptyMap == [k \in {} |-> 0]

\* no extract_info_from_text call and no model call under way
IdleChain ==
    /\ ex_text = <<>>
    /\ ex_info = EmptyMap
    /\ epc = "idle"
    /\ nlp_model = FALSE
    /\ llm_processor = FALSE
    /\ llm_response = [kind |-> "none"]
    /\ llm_results = <<>>

\* an analyzer whose memory file does not exist: load_memory leaves both lists empty
IdleMemory ==
    /\ document_memory = <<>>
    /\ corrections_memory = <<>>
    /\ memory_file = [documents |-> <<>>, corrections |-> <<>>]
    /\ suggestion = [found |-> FALSE]

Init ==
    /\ docs \in Batches
    /\ max_workers \in 1..MaxWorkers
    /\ rpc = "start"
    /\ running = TRUE
    /\ cancel_event = FALSE
    /\ progress_queue = <<>>
    /\ total_pages = 0
    /\ pages_done = 0
    /\ progress_log = <<>>
    /\ results_holder = <<>>
    /\ ext_idx = 0
    /\ rows = <<>>
    /\ finished_emits = 0
    /\ counters = EmptyMap
    /\ opc = "idle"
    /\ results = <<>>
    /\ total_pages_ocr = 0
    /\ futures = [p \in 1..Len(docs) |-> "none"]
    /\ fresult = [p \in 1..Len(docs) |-> None]
    /\ work_queue = <<>>
    /\ next_submit = 1
    /\ yielded = {}
    /\ sd_wait = FALSE
    /\ sd_cancel = FALSE
    /\ observed = FALSE
    /\ tpc = [p \in 1..Len(docs) |-> "none"]
    /\ tpage = [p \in 1..Len(docs) |-> 0]
    /\ full_text = [p \in 1..Len(docs) |-> <<>>]
    /\ emitted = [p \in 1..Len(docs) |-> 0]
    /\ sa_counters = EmptyMap
    /\ work_mode = KP
    /\ signature_text = <<>>
    /\ target_files = EmptyMap
    /\ call_log = <<>>
    /\ start_counters = EmptyMap
    /\ last_op = "none"
    /\ IdleChain
    /\ IdleMemory

TaskStep ==
    \E p \in Paths :
        \/ TaskStart(p)
        \/ TaskReturnEmpty(p)
        \/ TaskRecog(p)
        \/ TaskPut(p)
        \/ TaskReturn(p)

OcrStep ==
    \/ OcrPrepass
    \/ OcrSubmit
    \/ \E p \in Paths : OcrCollect(p)
    \/ OcrCollectDone
    \/ OcrShutdownWaitArg
    \/ OcrShutdownCancelArg
    \/ OcrDrain
    \/ OcrShutdownWait
    \/ OcrReturn

RunStep ==
    \/ RunStart
    \/ RunLoopTest
    \/ RunLoopGet
    \/ RunJoin
    \/ RunExtractFile
    \/ RunFinished

Next == TaskStep \/ OcrStep \/ RunStep \/ Stop

Spec == Init /\ [][Next]_vars

\* the steps of the pool thread working on the task of path p
TaskOf(p) ==
    /\ p \in Paths
    /\ \/ TaskStart(p)
       \/ TaskReturnEmpty(p)
       \/ TaskRecog(p)
       \/ TaskPut(p)
       \/ TaskReturn(p)

\* an iteration of the for loop of run(), told by its index alone
RunExtractTurn ==
    /\ rpc = "extract"
    /\ ext_idx <= ZipLen
    /\ ext_idx' = ext_idx + 1

\* every thread that can take a step is scheduled in the end: the QThread of
\* run() (its steps before and after the for loop, and the iterations of the
\* loop), the ocr_task thread and the pool threads; stop() is the user's and
\* may never come
Fairness ==
    /\ WF_vars(RunStart \/ RunLoopTest \/ RunLoopGet \/ RunJoin \/ RunFinished)
    /\ WF_ext_idx(RunExtractTurn)
    /\ WF_vars(OcrStep)
    /\ \A p \in 1..NFiles : WF_vars(TaskOf(p))

SpecLive == Spec /\ Fairness

\* ----------------------------------------- successive generate_new_filename
MaxCalls == 3
MaxStart == 2

DocTypes == {<<>>, KP, SA}

\* the counters maps a sequence of calls may start from
StartMaps == UNION {[S -> 0..MaxStart] : S \in SUBSET {LP, KP}}

\* the part of a run that the specifications of the session do not use
IdleWorker ==
    /\ docs = <<>>
    /\ max_workers = 1
    /\ rpc = "start"
    /\ running = TRUE
    /\ cancel_event = FALSE
    /\ progress_queue = <<>>
    /\ total_pages = 0
    /\ pages_done = 0
    /\ progress_log = <<>>
    /\ results_holder = <<>>
    /\ ext_idx = 0
    /\ rows = <<>>
    /\ finished_emits = 0
    /\ opc = "idle"
    /\ results = <<>>
    /\ total_pages_ocr = 0
    /\ futures = <<>>
    /\ fresult = <<>>
    /\ work_queue = <<>>
    /\ next_submit = 1
    /\ yielded = {}
    /\ sd_wait = FALSE
    /\ sd_cancel = FALSE
    /\ observed = FALSE
    /\ tpc = <<>>
    /\ tpage = <<>>
    /\ full_text = <<>>
    /\ emitted = <<>>
    /\ target_files = EmptyMap

IdleRun ==
    /\ IdleWorker
    /\ IdleChain
    /\ IdleMemory

InitNames ==
    /\ IdleRun
    /\ counters \in StartMaps
    /\ start_counters = counters
    /\ call_log = <<>>
    /\ last_op = "none"
    /\ sa_counters = EmptyMap
    /\ work_mode = KP
    /\ signature_text = <<>>

\* one call generate_new_filename(info, doc_type, counters)
GenerateCall ==
    /\ Len(call_log) < MaxCalls
    /\ \E doc_type \in DocTypes, info \in Infos :
         /\ call_log' = Append(call_log, [doc_type |-> doc_type,
                                          name |-> GenerateNewFilename(info, doc_type, counters)])
         /\ counters' = CountersAfter(counters, doc_type)
    /\ last_op' = "generate"
    /\ UNCHANGED <<start_counters, ctxVars, sessVars, batchVars, rpc, running, cancel_event,
                   progress_queue, total_pages, pages_done, progress_log, results_holder,
                   ext_idx, rows, finished_emits, ocrVars, taskVars>>

NextNames == GenerateCall

SpecNames == InitNames /\ [][NextNames]_vars

\* ------------------------------------------- the counters of the session
YEAR == 2026
MaxCounter == 3

Modes == {KP, KW, SA}

\* f"{self.work_mode}/{year}"
YearKey(mode) == mode \o <<"/">> \o Str(YEAR)

\* the texts a user types into the next-number field
SignatureTexts == {<<"0">>, <<"3">>, <<"x">>}

\* max(0, int(text) - 1)
NumberBefore(text) == IF ParseInt(text) - 1 > 0 THEN ParseInt(text) - 1 ELSE 0

\* _on_signature_changed(text) on the pair <<counters, sa_counters>>
SignatureChanged(pair, mode, text) ==
    IF ~IsDigitStr(text) THEN pair
    ELSE IF mode = SA
         THEN <<pair[1], CounterPut(pair[2], YearKey(mode), NumberBefore(text))>>
         ELSE <<CounterPut(pair[1], YearKey(mode), NumberBefore(text)), pair[2]>>

\* the map of the pair that belongs to the work mode
MapOf(pair, mode) == IF mode = SA THEN pair[2] ELSE pair[1]

\* the text _sync_number_edit writes into the field
SyncText(pair, mode) == Str(CounterGet(MapOf(pair, mode), YearKey(mode)) + 1)

\* _sync_number_edit: signature_edit.setText(str(num)); a changed text fires
\* textChanged, which runs _on_signature_changed
SyncPair(pair, mode, shown) ==
    IF SyncText(pair, mode) = shown THEN pair
    ELSE SignatureChanged(pair, mode, SyncText(pair, mode))

\* the pair after generate_new_filename(info, mode, counters-of-the-mode)
GeneratePair(pair, mode) ==
    IF mode = SA THEN <<pair[1], CountersAfter(pair[2], mode)>>
    ELSE <<CountersAfter(pair[1], mode), pair[2]>>

\* counters.clear(); sa_counters.clear()
ClearedPair == <<EmptyMap, EmptyMap>>

SessPair == <<counters, sa_counters>>

SessFrame ==
    UNCHANGED <<call_log, start_counters, ctxVars, target_files, batchVars, rpc, running,
                cancel_event, progress_queue, total_pages, pages_done, progress_log,
                results_holder, ext_idx, rows, finished_emits, ocrVars, taskVars>>

SetPair(pair) == counters' = pair[1] /\ sa_counters' = pair[2]

\* the user edits the next-number field: textChanged -> _on_signature_changed
OnSignatureChanged ==
    /\ \E text \in SignatureTexts :
         /\ text /= signature_text
         /\ signature_text' = text
         /\ SetPair(SignatureChanged(SessPair, work_mode, text))
    /\ last_op' = "edit"
    /\ UNCHANGED work_mode
    /\ SessFrame

\* _on_mode_changed: work_mode = LABEL_TO_CODE[...]; _sync_number_edit()
OnModeChanged ==
    /\ \E mode \in Modes \ {work_mode} :
         /\ work_mode' = mode
         /\ SetPair(SyncPair(SessPair, mode, signature_text))
         /\ signature_text' = SyncText(SessPair, mode)
    /\ last_op' = "mode"
    /\ SessFrame

\* ConfigDialog._on_reset_counters: reset_counters(); _sync_number_edit()
OnResetCounters ==
    /\ SetPair(SyncPair(ClearedPair, work_mode, signature_text))
    /\ signature_text' = SyncText(ClearedPair, work_mode)
    /\ last_op' = "reset"
    /\ UNCHANGED work_mode
    /\ SessFrame

\* the counters a session file may hold
SessionMaps == {EmptyMap} \cup {[k \in {m} |-> v] : m \in {KP, SA}, v \in 0..1}

\* SessionManager.load_session: counters, sa_counters and work_mode come from
\* the file; setCurrentText and _sync_number_edit refresh the field
LoadSession ==
    /\ \E c \in SessionMaps, mode \in Modes :
         /\ work_mode' = mode
         /\ SetPair(SyncPair(<<c, EmptyMap>>, mode, signature_text))
         /\ signature_text' = SyncText(<<c, EmptyMap>>, mode)
    /\ last_op' = "load"
    /\ SessFrame

\* a filename synthesis on the session's counters (a file of a batch run, or
\* the revalidation of a row), followed by _sync_number_edit
SessGenerate ==
    /\ CounterGet(MapOf(SessPair, work_mode), CounterKey(work_mode)) < MaxCounter
    /\ SetPair(SyncPair(GeneratePair(SessPair, work_mode), work_mode, signature_text))
    /\ signature_text' = SyncText(GeneratePair(SessPair, work_mode), work_mode)
    /\ last_op' = "generate"
    /\ UNCHANGED work_mode
    /\ SessFrame

InitSession ==
    /\ IdleRun
    /\ counters = EmptyMap
    /\ sa_counters = EmptyMap
    /\ work_mode = KP
    /\ signature_text = <<>>
    /\ call_log = <<>>
    /\ start_counters = EmptyMap
    /\ last_op = "none"

NextSession ==
    \/ SessGenerate
    \/ OnSignatureChanged
    \/ OnModeChanged
    \/ OnResetCounters
    \/ LoadSession

SpecSession == InitSession /\ [][NextSession]_vars

\* ------------------------------------------- the scheme of one file name
\* the metadata one call of generate_new_filename may be given
Signatures == {<<>>, <<" ">>, <<"S", " ", "1">>, <<"S", "y", "g", "n", "a", "t", "u", "r", "a">>, <<"?", ":">>}
Numbers == {<<>>, <<"7", "/", "x">>, <<"1", "2", "3">>}
Senders == {<<>>, <<"m", "f">>, <<"M", "i", "n", "i", "s", "t", "e", "r", "s", "t", "w", "o">>, <<"n", "n", "n", "n", "n", "n", "n", "n", "n", "n", "n", "n", "n", "n", "n", "n", "n", "n", "n", "n", "n", "n", "n", "n", "n", "n", "n", "n", "n", " ", "x">>}
Types == {<<>>, <<"U", "m", "o", "w", "a">>}
Subjects == {<<>>, <<"w", " ", "s", "p", "r", "a", "w", "i", "e">>, <<"*">>, <<"s", "s", "s", "s", "s", "s", "s", "s", "s", "s", "s", "s", "s", "s", "s", "s", "s", "s", "s", "s", "s", "s", "s", "s", "s", "s", "s", "s", "s", "s", "s", "s", "s", "s", "s", "s", "s", "s", "s", "s", "s", "s", "s", "s", "s", "s", "s", "s", "s", " ", "t", "u">>}

SchemeInfos ==
    {[sygnatura_sprawy |-> a, numer_dokumentu |-> b, nadawca_odbiorca |-> c,
      typ_dokumentu |-> d, w_sprawie |-> e] :
        a \in Signatures, b \in Numbers, c \in Senders, d \in Types, e \in Subjects}

\* one call generate_new_filename(info, doc_type, counters) on a fresh log
SchemeCall ==
    /\ call_log = <<>>
    /\ \E doc_type \in DocTypes, info \in SchemeInfos :
         /\ call_log' = <<[doc_type |-> doc_type,
                           name |-> GenerateNewFilename(info, doc_type, counters),
                           info |-> info]>>
         /\ counters' = CountersAfter(counters, doc_type)
    /\ last_op' = "scheme"
    /\ UNCHANGED <<start_counters, ctxVars, sessVars, batchVars, rpc, running, cancel_event,
                   progress_queue, total_pages, pages_done, progress_log, results_holder,
                   ext_idx, rows, finished_emits, ocrVars, taskVars>>

NextScheme == SchemeCall

SpecScheme == InitNames /\ [][NextScheme]_vars

\* ------------------------------------------ ContextAwareDocumentAnalyzer
\* Keys of metadata dictionaries are strings, their values are sequences of
\* characters. The timestamp of an entry is left out: nothing reads it.
DOCUMENTS_KEPT == 100
CORRECTIONS_KEPT == 200
DOCUMENT_FRAGMENT == 2000
CORRECTION_FRAGMENT == 1000

\* SIMILARITY_THRESHOLD = 0.7, as numerator and denominator
SIMILARITY_THRESHOLD == <<7, 10>>

\* s[-n:]
LastN(s, n) == IF Len(s) <= n THEN s ELSE SubSeq(s, Len(s) - n + 1, Len(s))

\* the data save_memory writes to memory_file
SavedMemory(documents, corrections) ==
    [documents |-> LastN(documents, DOCUMENTS_KEPT),
     corrections |-> LastN(corrections, CORRECTIONS_KEPT)]

\* the entry add_document_to_memory appends
DocumentEntry(text_fragment, metadata) ==
    [text_fragment |-> Prefix(text_fragment, DOCUMENT_FRAGMENT), metadata |-> metadata]

\* the keys add_correction_to_memory finds changed
ChangedKeys(original_metadata, corrected_metadata) ==
    {key \in DOMAIN corrected_metadata :
        /\ key \in DOMAIN original_metadata
        /\ original_metadata[key] /= corrected_metadata[key]
        /\ (original_metadata[key] /= <<>> \/ corrected_metadata[key] /= <<>>)}

ChangedFields(original_metadata, corrected_metadata) ==
    [key \in ChangedKeys(original_metadata, corrected_metadata) |->
        [original |-> original_metadata[key], corrected |-> corrected_metadata[key]]]

\* the entry with the whole fragment
CorrectionEntryWhole(text_fragment, changed_fields) ==
    [text_fragment |-> text_fragment, changed_fields |-> changed_fields]

\* the entry add_correction_to_memory appends
CorrectionEntry(text_fragment, changed_fields) ==
    [text_fragment |-> Prefix(text_fragment, CORRECTION_FRAGMENT),
     changed_fields |-> changed_fields]

\* the value add_correction_to_memory returns
CorrectionRecorded(original_metadata, corrected_metadata) ==
    ChangedKeys(original_metadata, corrected_metadata) /= {}

\* self.corrections_memory after add_correction_to_memory
CorrectionsAfterAdd(corrections, original_metadata, corrected_metadata, text_fragment) ==
    IF ChangedKeys(original_metadata, corrected_metadata) = {} THEN corrections
    ELSE Append(corrections,
                CorrectionEntry(text_fragment,
                                ChangedFields(original_metadata, corrected_metadata)))

Min3(a, b, c) == Min(a, Min(b, c))

Max(a, b) == IF a > b THEN a ELSE b

\* fuzzy_similarity, the implementation of the module itself (edit distance):
\* the inner loop over j for the character ch of a; entry k + 1 of a row is
\* dp[k], and the row holds dp[0..j-1] when the loop reaches j
RECURSIVE EditRow(_, _, _, _, _)
EditRow(prev_row, ch, b, j, row) ==
    IF Len(row) > Len(b) THEN row
    ELSE EditRow(prev_row, ch, b, j + 1,
                 Append(row, IF ch = b[j] THEN prev_row[j]
                             ELSE 1 + Min3(prev_row[j], prev_row[j + 1], row[j])))

\* the outer loop over i
RECURSIVE EditRows(_, _, _, _)
EditRows(a, b, i, row) ==
    IF i > Len(a) THEN row
    ELSE EditRows(a, b, i + 1, EditRow(row, a[i], b, 1, <<i>>))

\* distance = dp[n]
EditDistance(a, b) == EditRows(a, b, 1, [j \in 1..(Len(b) + 1) |-> j - 1])[Len(b) + 1]

\* the similarity as <<numerator, denominator>>: 1 - distance / max(m, n)
FuzzySimilarity(a, b) ==
    IF a = b THEN <<1, 1>>
    ELSE IF a = <<>> \/ b = <<>> THEN <<0, 1>>
    ELSE <<Max(Len(a), Len(b)) - EditDistance(a, b), Max(Len(a), Len(b))>>

\* similarity >= max_similarity in the loop
SimGreaterOrEqual(x, y) == x[1] * y[2] >= y[1] * x[2]

\* x > y and x >= y on similarities
SimGreater(x, y) == x[1] * y[2] > y[1] * x[2]

SimAtLeast(x, y) == x[1] * y[2] >= y[1] * x[2]

\* Optional[str]: None, or a string
NoSuggestion == [found |-> FALSE]

Suggested(value) == [found |-> TRUE, value |-> value]

\* the corrections whose changed_fields hold metadata_key
RelevantCorrections(corrections, metadata_key) ==
    SelectSeq(corrections, LAMBDA c : metadata_key \in DOMAIN c.changed_fields)

\* the loop that keeps the first correction of the highest similarity
RECURSIVE MostSimilar(_, _, _, _, _)
MostSimilar(relevant, txt, i, max_similarity, most_similar_correction) ==
    IF i > Len(relevant)
    THEN [max_similarity |-> max_similarity,
          most_similar_correction |-> most_similar_correction]
    ELSE IF SimGreater(FuzzySimilarity(relevant[i].text_fragment, txt), max_similarity)
    THEN MostSimilar(relevant, txt, i + 1,
                     FuzzySimilarity(relevant[i].text_fragment, txt), relevant[i])
    ELSE MostSimilar(relevant, txt, i + 1, max_similarity, most_similar_correction)

\* find_relevant_corrections(text, metadata_key)
FindRelevantCorrections(corrections, txt, metadata_key) ==
    IF corrections = <<>> THEN NoSuggestion
    ELSE LET relevant == RelevantCorrections(corrections, metadata_key)
             best == MostSimilar(relevant, txt, 1, <<-1, 1>>, <<>>)
         IN  IF relevant = <<>> THEN NoSuggestion
             ELSE IF SimAtLeast(best.max_similarity, SIMILARITY_THRESHOLD)
             THEN Suggested(best.most_similar_correction.changed_fields[metadata_key].corrected)
             ELSE NoSuggestion

\* not extracted_info[key] or len(extracted_info[key]) < 3
NeedsSuggestion(value) == value = <<>> \/ Len(value) < 3

\* apply_contextual_corrections(extracted_info, text)
ApplyContextualCorrections(corrections, extracted_info, txt) ==
    [key \in DOMAIN extracted_info |->
        LET suggested_value == FindRelevantCorrections(corrections, txt, key)
        IN  IF /\ NeedsSuggestion(extracted_info[key])
               /\ suggested_value.found
               /\ suggested_value.value /= <<>>
            THEN suggested_value.value
            ELSE extracted_info[key]]

\* ------------------------------ DocumentLLMProcessor.extract_smart_metadata
\* a value of a parsed response that is not a str
NOT_A_STRING == <<"<not a str>">>

IsStr(value) == value /= NOT_A_STRING

\* metadata.get(key, "")
DictGet(d, key) == IF key \in DOMAIN d THEN d[key] ELSE <<>>

\* the keys validate_metadata looks at
VALIDATED_KEYS == {"typ_dokumentu", "data", "nadawca_odbiorca", "w_sprawie", "numer_dokumentu"}

\* re.match(r"^\d{4}-\d{2}-\d{2}$", value): "$" also matches before a final newline
MatchesDate(value) ==
    LET body == IF Len(value) = 11 /\ value[11] = "\n" THEN SubSeq(value, 1, 10) ELSE value
    IN  /\ Len(body) = 10
        /\ \A i \in 1..10 : IF i \in {5, 8} THEN body[i] = "-" ELSE IsDigit(body[i])

\* validate_metadata(metadata)
ValidateMetadata(metadata) ==
    \A key \in VALIDATED_KEYS :
        /\ IsStr(DictGet(metadata, key))
        /\ (key = "data" /\ DictGet(metadata, key) /= <<>>) => MatchesDate(DictGet(metadata, key))

\* if 'temat' in metadata and 'w_sprawie' not in metadata:
\*     metadata['w_sprawie'] = metadata.pop('temat')
RenameTemat(metadata) ==
    IF "temat" \in DOMAIN metadata /\ "w_sprawie" \notin DOMAIN metadata
    THEN [key \in (DOMAIN metadata \ {"temat"}) \cup {"w_sprawie"} |->
             IF key = "w_sprawie" THEN metadata["temat"] ELSE metadata[key]]
    ELSE metadata

\* Optional[Dict]: None, or a dictionary
NoMetadata == [none |-> TRUE]

SomeMetadata(metadata) == [none |-> FALSE, metadata |-> metadata]

\* extract_smart_metadata without the call of validate_metadata
ExtractSmartMetadataUnvalidated(response, txt, documents, corrections) ==
    IF response.kind = "prompt_raises"
    THEN [raised |-> TRUE, result |-> NoMetadata, documents |-> documents]
    ELSE IF response.kind /= "dict"
    THEN [raised |-> FALSE, result |-> NoMetadata, documents |-> documents]
    ELSE [raised |-> FALSE,
          result |-> SomeMetadata(ApplyContextualCorrections(
                                      corrections, RenameTemat(response.metadata), txt)),
          documents |-> Append(documents,
                               DocumentEntry(txt, RenameTemat(response.metadata)))]

\* the outcome of extract_smart_metadata(text, filename) for a response of the
\* model: whether the call raised, the value it returned and the document
\* memory it left. Kinds of response: "not_loaded" (load_model fails),
\* "prompt_raises" (generate_enhanced_prompt raises, outside the try),
\* "generate_raises" (tokenizer or model raise), "no_json" (JSONDecodeError),
\* "not_dict" (the JSON is not an object), "dict" (a parsed object)
ExtractSmartMetadata(response, txt, documents, corrections) ==
    IF response.kind = "prompt_raises"
    THEN [raised |-> TRUE, result |-> NoMetadata, documents |-> documents]
    ELSE IF response.kind /= "dict" \/ ~ValidateMetadata(RenameTemat(response.metadata))
    THEN [raised |-> FALSE, result |-> NoMetadata, documents |-> documents]
    ELSE [raised |-> FALSE,
          result |-> SomeMetadata(ApplyContextualCorrections(
                                      corrections, RenameTemat(response.metadata), txt)),
          documents |-> Append(documents,
                               DocumentEntry(txt, RenameTemat(response.metadata)))]

\* -------------------------------------------------- extract_info_from_text
OVERRIDE_VALUE == <<"o", "v", "r">>
NER_VALUE == <<"n", "e", "r">>
SMART_VALUE == <<"s", "m", "a", "r", "t">>
REGEX_VALUE == <<"r", "e", "g", "e", "x">>
LLM_VALUE == <<"l", "l", "m">>
LLM_DATE == <<"2", "0", "2", "4", "-", "0", "5", "-", "1", "2">>
NER_MISSING == <<"B", "L", "A", "D", ":", " ", "M", "o", "d", "e", "l", " ", "N", "E", "R", " ", "n", "i", "e", " ", "j", "e", "s", "t", " ", "z", "a", "l", "a", "d", "o", "w", "a", "n", "y", ".">>
DOC_TEXT == <<"p", "i", "s", "m", "o">>

STATUS_OK == "OK"
STATUS_ERROR == "BLAD"
STATUS_INCOMPLETE == "DO UZUPELNIENIA"

\* the keys of the record other than status
INFO_FIELDS ==
    {"data", "nadawca_odbiorca", "w_sprawie", "numer_dokumentu", "sygnatura_sprawy",
     "typ_dokumentu"}

\* what a stage finds among the keys it can fill: nothing, one key, or all
Finds(keys) == {{}} \cup {{key} : key \in keys} \cup {keys}

\* the dictionary of a stage that found the keys of found, each with value
Found(found, value) == [key \in found |-> value]

\* the record at the top of the function
NewInfo(case_signature_override) ==
    [key \in INFO_FIELDS \cup {"status"} |->
        IF key = "status" THEN STATUS_OK
        ELSE IF key = "sygnatura_sprawy" THEN case_signature_override
        ELSE <<>>]

\* the entity label the NER stage reads for a key
NER_KEYS == INFO_FIELDS

\* step 1: the NER model, or its absence
AfterNer(rec, available, entities) ==
    IF available
    THEN [key \in DOMAIN rec |->
            IF key = "status" THEN rec[key]
            ELSE IF key = "sygnatura_sprawy"
            THEN (IF rec[key] = <<>> THEN DictGet(entities, key) ELSE rec[key])
            ELSE DictGet(entities, key)]
    ELSE [rec EXCEPT !["w_sprawie"] = NER_MISSING, !["status"] = STATUS_ERROR]

\* info[key] = source[key] for every key the source has
FillAlways(rec, keys, source) ==
    [key \in DOMAIN rec |->
        IF key \in keys /\ key \in DOMAIN source THEN source[key] ELSE rec[key]]

\* if not info[key]: info[key] = source.get(key, "")
FillEmpty(rec, keys, source) ==
    [key \in DOMAIN rec |->
        IF key \in keys /\ rec[key] = <<>> THEN DictGet(source, key) ELSE rec[key]]

SMART_KEYS == {"data", "nadawca_odbiorca", "w_sprawie", "numer_dokumentu", "typ_dokumentu"}

\* step 2: SmartExtractor
AfterSmart(rec, smart_results) == FillEmpty(rec, SMART_KEYS, smart_results)

REGEX_KEYS == {"data", "nadawca_odbiorca", "numer_dokumentu", "sygnatura_sprawy"}

\* step 3: the regular expressions
AfterRegex(rec, matches) == FillEmpty(rec, REGEX_KEYS, matches)

\* the key of llm_results the merge reads for a key of the record
LlmKey(key) == IF key = "w_sprawie" THEN "temat" ELSE key

LLM_MERGED == {"typ_dokumentu", "data", "w_sprawie", "nadawca_odbiorca", "numer_dokumentu"}

\* step 4, the body of "if llm_results:"
MergeLlm(rec, metadata) ==
    [key \in DOMAIN rec |->
        IF key \in LLM_MERGED /\ rec[key] = <<>> /\ DictGet(metadata, LlmKey(key)) /= <<>>
        THEN DictGet(metadata, LlmKey(key))
        ELSE rec[key]]

\* step 4: the record after the try block around extract_smart_metadata;
\* an exception and a falsy result (None or an empty dictionary) leave it alone
AfterLlm(rec, outcome) ==
    IF outcome.raised \/ outcome.result.none THEN rec
    ELSE IF DOMAIN outcome.result.metadata = {} THEN rec
    ELSE MergeLlm(rec, outcome.result.metadata)

\* colors: the keys other than status whose value is empty
Colors(rec) == {key \in DOMAIN rec \ {"status"} : rec[key] = <<>>}

\* info["status"] = "DO UZUPELNIENIA" if colors else "OK"
FinalizedAfresh(rec) ==
    [key \in DOMAIN rec \cup {"colors"} |->
        IF key = "colors" THEN Colors(rec)
        ELSE IF key = "status"
        THEN (IF Colors(rec) /= {} THEN STATUS_INCOMPLETE ELSE STATUS_OK)
        ELSE rec[key]]

\* if colors: info["status"] = "DO UZUPELNIENIA"; info["colors"] = colors
Finalized(rec) ==
    [key \in DOMAIN rec \cup {"colors"} |->
        IF key = "colors" THEN Colors(rec)
        ELSE IF key = "status" /\ Colors(rec) /= {} THEN STATUS_INCOMPLETE
        ELSE rec[key]]

\* the session around a call that neither numbers nor copies a file
IdleSession ==
    /\ IdleWorker
    /\ counters = EmptyMap
    /\ start_counters = EmptyMap
    /\ call_log = <<>>
    /\ last_op = "none"
    /\ sa_counters = EmptyMap
    /\ work_mode = KP
    /\ signature_text = <<>>

\* a correction the user made earlier on a document with the same text
PastCorrection ==
    CorrectionsAfterAdd(<<>>,
                        [key \in {"w_sprawie", "sygnatura_sprawy", "data"} |-> <<>>],
                        [key \in {"w_sprawie", "sygnatura_sprawy", "data"} |->
                            IF key = "data" THEN <<"1", "2", ".", "0", "5", ".", "2", "0", "2", "4">>
                            ELSE <<"f", "i", "x">>],
                        DOC_TEXT)

\* the correction memories a call may find
ChainMemories == {<<>>, PastCorrection}

\* the keys of the JSON object the prompt asks the model for
PROMPT_KEYS == {"typ_dokumentu", "data", "nadawca_odbiorca", "temat", "numer_dokumentu"}

\* the object of a model that filled the keys of found
Answer(found) ==
    [key \in PROMPT_KEYS |->
        IF key \notin found THEN <<>> ELSE IF key = "data" THEN LLM_DATE ELSE LLM_VALUE]

\* the responses of the model
ChainResponses ==
    {[kind |-> kind] :
        kind \in {"not_loaded", "prompt_raises", "generate_raises", "no_json", "not_dict"}}
    \cup {[kind |-> "dict", metadata |-> Answer(found)] : found \in Finds(PROMPT_KEYS)}
    \cup {[kind |-> "dict", metadata |-> [Answer(PROMPT_KEYS) EXCEPT !["data"] = LLM_VALUE]],
          [kind |-> "dict", metadata |-> [Answer(PROMPT_KEYS) EXCEPT !["data"] = NOT_A_STRING]],
          [kind |-> "dict", metadata |-> [key \in {"w_sprawie"} |-> LLM_VALUE]],
          [kind |-> "dict", metadata |-> EmptyMap]}

InitChain ==
    /\ IdleSession
    /\ IdleMemory
    /\ ex_text = DOC_TEXT
    /\ ex_info = EmptyMap
    /\ epc = "start"
    /\ nlp_model = FALSE
    /\ llm_processor = FALSE
    /\ llm_response = [kind |-> "none"]
    /\ llm_results = <<>>

ChainFrame ==
    UNCHANGED <<batchVars, runVars, ocrVars, taskVars, sessVars, logVars, ex_text, suggestion>>

\* the call: extract_info_from_text(text, name, mode, case_signature_override,
\* llm_processor), on an analyzer whose memory was loaded from its file
ChainStart ==
    /\ epc = "start"
    /\ \E case_signature_override \in {<<>>, OVERRIDE_VALUE}, enabled \in BOOLEAN,
          corrections \in ChainMemories :
         /\ ex_info' = NewInfo(case_signature_override)
         /\ llm_processor' = enabled
         /\ corrections_memory' = corrections
         /\ memory_file' = SavedMemory(<<>>, corrections)
    /\ epc' = "ner"
    /\ UNCHANGED <<nlp_model, llm_response, llm_results, document_memory>>
    /\ ChainFrame

\* step 1
ChainNer ==
    /\ epc = "ner"
    /\ \E available \in BOOLEAN, found \in Finds(NER_KEYS) :
         /\ available \/ found = {}
         /\ nlp_model' = available
         /\ ex_info' = AfterNer(ex_info, available, Found(found, NER_VALUE))
    /\ epc' = "smart"
    /\ UNCHANGED <<llm_processor, llm_response, llm_results, document_memory,
                   corrections_memory, memory_file>>
    /\ ChainFrame

\* step 2
ChainSmart ==
    /\ epc = "smart"
    /\ \E found \in Finds(SMART_KEYS) :
         ex_info' = AfterSmart(ex_info, Found(found, SMART_VALUE))
    /\ epc' = "regex"
    /\ UNCHANGED <<nlp_model, llm_processor, llm_response, llm_results, document_memory,
                   corrections_memory, memory_file>>
    /\ ChainFrame

\* step 3
ChainRegex ==
    /\ epc = "regex"
    /\ \E found \in Finds(REGEX_KEYS) :
         ex_info' = AfterRegex(ex_info, Found(found, REGEX_VALUE))
    /\ epc' = "llm"
    /\ UNCHANGED <<nlp_model, llm_processor, llm_response, llm_results, document_memory,
                   corrections_memory, memory_file>>
    /\ ChainFrame

\* step 4 with an assistant: extract_smart_metadata and the merge of its result
ChainLlm ==
    /\ epc = "llm"
    /\ llm_processor
    /\ \E response \in ChainResponses :
         LET outcome == ExtractSmartMetadata(response, ex_text, document_memory,
                                             corrections_memory)
         IN  /\ llm_response' = response
             /\ llm_results' = outcome.result
             /\ document_memory' = outcome.documents
             /\ memory_file' = SavedMemory(outcome.documents, corrections_memory)
             /\ ex_info' = AfterLlm(ex_info, outcome)
    /\ epc' = "final"
    /\ UNCHANGED <<nlp_model, llm_processor, corrections_memory>>
    /\ ChainFrame

\* step 4 without an assistant: "if llm_processor:" is false
ChainNoLlm ==
    /\ epc = "llm"
    /\ ~llm_processor
    /\ epc' = "final"
    /\ UNCHANGED <<ex_info, nlp_model, llm_processor, llm_response, llm_results, memVars>>
    /\ ChainFrame

\* the validation of the fields and the return
ChainFinalize ==
    /\ epc = "final"
    /\ ex_info' = Finalized(ex_info)
    /\ epc' = "returned"
    /\ UNCHANGED <<nlp_model, llm_processor, llm_response, llm_results, memVars>>
    /\ ChainFrame

NextChain ==
    \/ ChainStart
    \/ ChainNer
    \/ ChainSmart
    \/ ChainRegex
    \/ ChainLlm
    \/ ChainNoLlm
    \/ ChainFinalize

SpecChain == InitChain /\ [][NextChain]_vars

\* ------------------------------------- calls of extract_smart_metadata
MaxExtracts == 2

\* the responses of the model, one of them with a newline after the date
LlmResponses ==
    ChainResponses
    \cup {[kind |-> "dict",
           metadata |-> [Answer(PROMPT_KEYS) EXCEPT !["data"] = Append(LLM_DATE, "\n")]],
          [kind |-> "dict",
           metadata |-> [Answer(PROMPT_KEYS) EXCEPT !["data"] = <<"2", "0">>]]}

\* a processor whose analyzer loaded one of the correction memories
InitLLM ==
    /\ IdleSession
    /\ ex_text = DOC_TEXT
    /\ ex_info = EmptyMap
    /\ epc = "start"
    /\ nlp_model = FALSE
    /\ llm_processor = TRUE
    /\ llm_response = [kind |-> "none"]
    /\ llm_results = <<>>
    /\ document_memory = <<>>
    /\ corrections_memory \in ChainMemories
    /\ memory_file = SavedMemory(<<>>, corrections_memory)
    /\ suggestion = [found |-> FALSE]

\* one call extract_smart_metadata(text, filename)
LlmExtract ==
    /\ Len(document_memory) < MaxExtracts
    /\ \E response \in LlmResponses :
         LET outcome == ExtractSmartMetadata(response, ex_text, document_memory,
                                             corrections_memory)
         IN  /\ llm_response' = response
             /\ llm_results' = outcome.result
             /\ document_memory' = outcome.documents
             /\ memory_file' = SavedMemory(outcome.documents, corrections_memory)
             /\ epc' = IF outcome.raised THEN "raised" ELSE "returned"
    /\ UNCHANGED <<ex_info, nlp_model, llm_processor, corrections_memory>>
    /\ ChainFrame

NextLLM == LlmExtract

SpecLLM == InitLLM /\ [][NextLLM]_vars

\* ------------------------------------------- the memory of one analyzer
MaxAdds == 4

\* the i-th document and the i-th correction ever stored in a memory file
MemoryDocument(i) == DocumentEntry(Str(i), [key \in {"data"} |-> <<>>])

MemoryCorrection(i) ==
    CorrectionEntry(Str(i), ChangedFields([key \in {"w_sprawie"} |-> <<>>],
                                          [key \in {"w_sprawie"} |-> Str(i)]))

StoredDocuments(n) == [i \in 1..n |-> MemoryDocument(i)]

StoredCorrections(n) == [i \in 1..n |-> MemoryCorrection(i)]

\* the calls that added an entry of a kind, and the entries ever inserted
Added(kind) == Len(SelectSeq(call_log, LAMBDA call : call.op = kind))

TotalDocuments == call_log[1].documents + Added("add_document")

TotalCorrections == call_log[1].corrections + Added("add_correction")

\* __init__: load_memory reads a file that is absent or was left full by
\* save_memory in an earlier session
InitMemory ==
    /\ IdleWorker
    /\ IdleChain
    /\ counters = EmptyMap
    /\ start_counters = EmptyMap
    /\ last_op = "none"
    /\ sa_counters = EmptyMap
    /\ work_mode = KP
    /\ signature_text = <<>>
    /\ suggestion = [found |-> FALSE]
    /\ \E documents \in {0, DOCUMENTS_KEPT}, corrections \in {0, CORRECTIONS_KEPT} :
         /\ memory_file = [documents |-> StoredDocuments(documents),
                           corrections |-> StoredCorrections(corrections)]
         /\ document_memory = memory_file.documents
         /\ corrections_memory = memory_file.corrections
         /\ call_log = <<[op |-> "load", documents |-> documents,
                          corrections |-> corrections]>>

MemoryFrame ==
    UNCHANGED <<batchVars, runVars, ocrVars, taskVars, sessVars, start_counters, last_op,
                chainVars, llm_response, llm_results, suggestion>>

\* add_document_to_memory(text_fragment, metadata)
AddDocumentToMemory ==
    /\ Len(call_log) <= MaxAdds
    /\ document_memory' = Append(document_memory, MemoryDocument(TotalDocuments + 1))
    /\ memory_file' = SavedMemory(document_memory', corrections_memory)
    /\ call_log' = Append(call_log, [op |-> "add_document"])
    /\ UNCHANGED corrections_memory
    /\ MemoryFrame

\* add_correction_to_memory(original_metadata, corrected_metadata, text_fragment)
\* with a corrected subject
AddCorrectionToMemory ==
    /\ Len(call_log) <= MaxAdds
    /\ corrections_memory' =
          CorrectionsAfterAdd(corrections_memory, [key \in {"w_sprawie"} |-> <<>>],
                              [key \in {"w_sprawie"} |-> Str(TotalCorrections + 1)],
                              Str(TotalCorrections + 1))
    /\ memory_file' = SavedMemory(document_memory, corrections_memory')
    /\ call_log' = Append(call_log, [op |-> "add_correction"])
    /\ UNCHANGED document_memory
    /\ MemoryFrame

\* add_correction_to_memory with nothing changed: no entry and no save
AddCorrectionUnchanged ==
    /\ Len(call_log) <= MaxAdds
    /\ corrections_memory' =
          CorrectionsAfterAdd(corrections_memory, [key \in {"w_sprawie"} |-> <<>>],
                              [key \in {"w_sprawie"} |-> <<>>], Str(TotalCorrections + 1))
    /\ call_log' = Append(call_log, [op |-> "unchanged"])
    /\ UNCHANGED <<document_memory, memory_file>>
    /\ MemoryFrame

NextMemory ==
    \/ AddDocumentToMemory
    \/ AddCorrectionToMemory
    \/ AddCorrectionUnchanged

SpecMemory == InitMemory /\ [][NextMemory]_vars

\* ------------------------------------- calls of find_relevant_corrections
MaxCorrections == 3

\* a text, and fragments at similarity 7/10, 7/10 and 6/10 to it
QUERY_TEXT == <<"a", "a", "a", "a", "a", "a", "a", "a", "a", "a">>
NEAR_TEXT == <<"a", "a", "a", "a", "a", "a", "a", "b", "b", "b">>
NEAR_TEXT_2 == <<"b", "b", "b", "a", "a", "a", "a", "a", "a", "a">>
FAR_TEXT == <<"a", "a", "a", "a", "a", "a", "b", "b", "b", "b">>

Fragments == {QUERY_TEXT, NEAR_TEXT, NEAR_TEXT_2, FAR_TEXT}

\* the metadata keys of the corrections
CorrectionKeys == {"pole", "inne"}

InitCorrections ==
    /\ IdleSession
    /\ IdleChain
    /\ IdleMemory

CorrectionsFrame ==
    UNCHANGED <<batchVars, runVars, ocrVars, taskVars, sessVars, start_counters, last_op,
                chainVars, llm_response, llm_results, document_memory>>

\* add_correction_to_memory of a field the user changed; the corrected value
\* is the ordinal of the correction
RememberCorrection ==
    /\ call_log = <<>>
    /\ Len(corrections_memory) < MaxCorrections
    /\ \E text_fragment \in Fragments, key \in CorrectionKeys :
         corrections_memory' =
            CorrectionsAfterAdd(corrections_memory, [k \in {key} |-> <<>>],
                                [k \in {key} |-> Str(Len(corrections_memory) + 1)],
                                text_fragment)
    /\ memory_file' = SavedMemory(document_memory, corrections_memory')
    /\ UNCHANGED <<call_log, suggestion>>
    /\ CorrectionsFrame

\* find_relevant_corrections(text, metadata_key)
FindCorrection ==
    /\ call_log = <<>>
    /\ \E txt \in {QUERY_TEXT, NEAR_TEXT}, metadata_key \in CorrectionKeys :
         /\ suggestion' = FindRelevantCorrections(corrections_memory, txt, metadata_key)
         /\ call_log' = <<[op |-> "find", text |-> txt, metadata_key |-> metadata_key]>>
    /\ UNCHANGED <<corrections_memory, memory_file>>
    /\ CorrectionsFrame

NextCorrections ==
    \/ RememberCorrection
    \/ FindCorrection

SpecCorrections == InitCorrections /\ [][NextCorrections]_vars

\* ---------------------------------------- calls of find_similar_documents
MaxDocuments == 3

\* the cosine, in hundredths, between the embedding of a stored fragment and
\* the embedding of the text of the query, as the embedding model gives it
COSINE_OF ==
    [fragment \in {<<"a">>, <<"b">>, <<"c">>, <<"d">>} |->
        IF fragment = <<"a">> THEN 90
        ELSE IF fragment = <<"b">> THEN 50
        ELSE IF fragment = <<"c">> THEN 20
        ELSE 10]

\* similarities[idx] > 0.2
SIMILAR_ABOVE == 20

Similarities(documents) ==
    [idx \in 1..Len(documents) |-> COSINE_OF[documents[idx].text_fragment]]

\* sorted(range(len(similarities)), key=lambda i: similarities[i],
\* reverse=True): descending, equal keys in their original order
SortedIndices(similarities) ==
    LET before(i, j) ==
            \/ similarities[i] > similarities[j]
            \/ similarities[i] = similarities[j] /\ i < j
        rank(i) == 1 + Cardinality({j \in DOMAIN similarities : before(j, i)})
    IN  [position \in 1..Len(similarities) |->
            CHOOSE i \in DOMAIN similarities : rank(i) = position]

\* the loop over similar_indices that builds similar_docs
SimilarDocs(documents, similarities, similar_indices) ==
    LET kept == SelectSeq(similar_indices, LAMBDA idx : similarities[idx] > SIMILAR_ABOVE)
    IN  [k \in 1..Len(kept) |->
            [document |-> documents[kept[k]], similarity |-> similarities[kept[k]]]]

\* find_similar_documents(text, top_n); encodes: the embedding model answers
FindSimilarDocuments(documents, top_n, encodes) ==
    IF Len(documents) < 2 THEN <<>>
    ELSE IF ~encodes THEN <<>>
    ELSE SimilarDocs(documents, Similarities(documents),
                     Prefix(SortedIndices(Similarities(documents)), top_n))

InitSimilar ==
    /\ IdleSession
    /\ IdleChain
    /\ IdleMemory

SimilarFrame ==
    UNCHANGED <<batchVars, runVars, ocrVars, taskVars, sessVars, start_counters, last_op,
                chainVars, llm_response, llm_results, corrections_memory, suggestion>>

\* add_document_to_memory(text_fragment, metadata)
RememberDocument ==
    /\ call_log = <<>>
    /\ Len(document_memory) < MaxDocuments
    /\ \E text_fragment \in DOMAIN COSINE_OF :
         document_memory' =
            Append(document_memory,
                   DocumentEntry(text_fragment,
                                 [key \in {"id"} |-> Str(Len(document_memory) + 1)]))
    /\ memory_file' = SavedMemory(document_memory', corrections_memory)
    /\ UNCHANGED call_log
    /\ SimilarFrame

\* find_similar_documents(text, top_n)
FindSimilar ==
    /\ call_log = <<>>
    /\ \E top_n \in 1..MaxDocuments, encodes \in BOOLEAN :
         call_log' = <<[op |-> "find_similar", top_n |-> top_n, encodes |-> encodes,
                        similar_docs |-> FindSimilarDocuments(document_memory, top_n,
                                                              encodes)]>>
    /\ UNCHANGED <<document_memory, memory_file>>
    /\ SimilarFrame

NextSimilar ==
    \/ RememberDocument
    \/ FindSimilar

SpecSimilar == InitSimilar /\ [][NextSimilar]_vars

\* -------------------------------------- calls of add_correction_to_memory
\* a fragment one character longer than the part that is kept
LONG_FRAGMENT == [i \in 1..(CORRECTION_FRAGMENT + 1) |-> "x"]

\* the metadata records of a call: any of two keys, each empty or one of two
\* values
CorrectionRecords ==
    UNION {[keys -> {<<>>, <<"s", "t", "a", "r", "a">>, <<"n", "o", "w", "a">>}] :
              keys \in SUBSET CorrectionKeys}

\* an analyzer that loaded a memory file
InitAddCorrection ==
    /\ IdleSession
    /\ IdleChain
    /\ suggestion = [found |-> FALSE]
    /\ \E documents \in 0..1, corrections \in {0, 2} :
         /\ memory_file = [documents |-> StoredDocuments(documents),
                           corrections |-> StoredCorrections(corrections)]
         /\ document_memory = memory_file.documents
         /\ corrections_memory = memory_file.corrections

\* add_correction_to_memory(original_metadata, corrected_metadata, text_fragment)
AddCorrectionCall ==
    /\ call_log = <<>>
    /\ \E original_metadata \in CorrectionRecords, corrected_metadata \in CorrectionRecords,
          text_fragment \in {QUERY_TEXT, LONG_FRAGMENT} :
         /\ corrections_memory' =
               CorrectionsAfterAdd(corrections_memory, original_metadata,
                                   corrected_metadata, text_fragment)
         /\ memory_file' =
               IF CorrectionRecorded(original_metadata, corrected_metadata)
               THEN SavedMemory(document_memory, corrections_memory')
               ELSE memory_file
         /\ call_log' = <<[op |-> "add_correction",
                           original_metadata |-> original_metadata,
                           corrected_metadata |-> corrected_metadata,
                           text_fragment |-> text_fragment,
                           returned |-> CorrectionRecorded(original_metadata,
                                                           corrected_metadata)]>>
    /\ UNCHANGED <<document_memory, suggestion>>
    /\ CorrectionsFrame

NextAddCorrection == AddCorrectionCall

SpecAddCorrection == InitAddCorrection /\ [][NextAddCorrection]_vars

\* ------------------------------------------------ calls of handle_file_copy
MaxCopies == 2

\* the names of the tests, a name with a directory part, the parent
\* directory and a name of disallowed characters; a character outside ASCII
\* is written as its code point
CopyNames ==
    {<<"s", "p", "a", "c", "e", "d", " ", "n", "a", "m", "e", ".", "t", "x", "t">>,
     <<"b", "a", "d", "\n", "n", "a", "m", "e", ".", "t", "x", "t">>,
     <<"U+017C", "U+00F3", "U+0142", "U+0107", ".", "t", "x", "t">>,
     <<"b", "a", "d", "\t", "n", "a", "m", "e", ".", "t", "x", "t">>,
     <<"a", "/", "b", ".", "t", "x", "t">>,
     <<".", ".">>,
     <<"x", "<", "y", "|", "z">>}

InitCopy ==
    /\ IdleSession
    /\ IdleChain
    /\ IdleMemory

\* handle_file_copy(src_path, dest_dir, filename)
CopyCall ==
    /\ Len(call_log) < MaxCopies
    /\ \E src \in 1..2, filename \in CopyNames, ok \in BOOLEAN :
         /\ target_files' = FilesAfterCopy(target_files, src, filename, ok)
         /\ call_log' = Append(call_log, [op |-> "copy", src |-> src, filename |-> filename,
                                          returned |-> HandleFileCopy(filename, ok)])
    /\ UNCHANGED <<sa_counters, work_mode, signature_text, start_counters, last_op,
                   batchVars, runVars, ocrVars, taskVars, ctxVars>>

NextCopy == CopyCall

SpecCopy == InitCopy /\ [][NextCopy]_vars

\* ---------------------------------------------------------- process_files
\* the names an input directory may hold, in the order sorted() gives them
INPUT_NAMES ==
    <<<<"a", ".", "p", "d", "f">>,
      <<"d", "o", "k", "u", "m", "e", "n", "t", "_", "d", "o", "_", "w", "e", "r", "y", "f", "i", "k", "a", "c", "j", "i", "_", "1", ".", "p", "d", "f">>,
      <<"d", "o", "k", "u", "m", "e", "n", "t", "_", "d", "o", "_", "w", "e", "r", "y", "f", "i", "k", "a", "c", "j", "i", "_", "2", ".", "p", "d", "f">>>>

\* an input directory: name -> content, every file holding its own content
InputDirs ==
    {[name \in names |-> name] :
        names \in SUBSET {INPUT_NAMES[i] : i \in 1..Len(INPUT_NAMES)} \ {{}}}

\* pdf_paths = sorted(Path(input_dir).glob("*.pdf")), listed once at the start
PdfPaths == SelectSeq(INPUT_NAMES, LAMBDA name : name \in DOMAIN call_log[1].input_files)

\* handle_file_copy when dest_dir is the directory of src: copy2 raises
\* SameFileError when the destination is the source itself
CopyInPlaceReturn(src_name, filename, ok) ==
    IF HandleFileCopy(filename, ok) = src_name THEN <<>> ELSE HandleFileCopy(filename, ok)

\* the directory after that call: an existing file of the name is overwritten
FilesAfterCopyInPlace(files, src_name, filename, ok) ==
    LET copied == CopyInPlaceReturn(src_name, filename, ok)
    IN  IF copied = <<>> \/ copied = <<".", ".">> THEN files
        ELSE [n \in DOMAIN files \cup {copied} |-> IF n = copied THEN files[src_name] ELSE files[n]]

InitProcess ==
    /\ IdleSession
    /\ IdleChain
    /\ IdleMemory

ProcessFrame ==
    UNCHANGED <<batchVars, rpc, cancel_event, progress_queue, total_pages, pages_done,
                progress_log, results_holder, finished_emits, ocrVars, taskVars,
                sa_counters, work_mode, signature_text, start_counters, ctxVars>>

\* the call process_files(input_dir, output_dir, ...): target_dir is
\* output_dir, or input_dir when output_dir is empty; int_counters says
\* whether the counters map given holds integers (a map loaded from a session
\* file holds whatever the file holds)
ProcessStart ==
    /\ last_op = "none"
    /\ \E input_files \in InputDirs, output_dir \in BOOLEAN, int_counters \in BOOLEAN :
         /\ call_log' = <<[op |-> "process_files", input_files |-> input_files,
                           output_dir |-> output_dir, int_counters |-> int_counters]>>
         /\ target_files' = IF output_dir THEN EmptyMap ELSE input_files
    /\ ext_idx' = 1
    /\ last_op' = "loop"
    /\ UNCHANGED <<counters, rows, running>>
    /\ ProcessFrame

\* stop_cb() starts to return true
ProcessStop ==
    /\ last_op = "loop"
    /\ running
    /\ running' = FALSE
    /\ UNCHANGED <<call_log, target_files, ext_idx, last_op, counters, rows>>
    /\ ProcessFrame

\* one iteration of the loop over pdf_paths: the stop test, the extraction,
\* generate_new_filename (counters.get(key, 0) + 1 raises TypeError on a
\* value that is no number, and only ValueError is caught), the copy, the row
ProcessFile ==
    /\ last_op = "loop"
    /\ ext_idx <= Len(PdfPaths)
    /\ IF ~running
       THEN /\ last_op' = "returned"
            /\ UNCHANGED <<target_files, ext_idx, counters, rows>>
       ELSE IF ~call_log[1].int_counters
       THEN /\ last_op' = "raised"
            /\ UNCHANGED <<target_files, ext_idx, counters, rows>>
       ELSE \E o \in FileOutcomes :
              LET info == o[1]
                  ok == o[2]
                  path == PdfPaths[ext_idx]
                  new_name == GenerateNewFilename(info, work_mode, counters)
                  safe_name == IF call_log[1].output_dir
                               THEN HandleFileCopy(new_name, ok)
                               ELSE CopyInPlaceReturn(path, new_name, ok)
              IN  /\ counters' = CountersAfter(counters, work_mode)
                  /\ target_files' =
                        IF call_log[1].output_dir
                        THEN FilesAfterCopy(target_files, path, new_name, ok)
                        ELSE FilesAfterCopyInPlace(target_files, path, new_name, ok)
                  /\ rows' = Append(rows, [path |-> path, idx |-> ext_idx,
                                           new_name |-> IF safe_name /= <<>> THEN safe_name
                                                        ELSE new_name,
                                           info |-> info])
                  /\ ext_idx' = ext_idx + 1
                  /\ UNCHANGED last_op
    /\ UNCHANGED <<call_log, running>>
    /\ ProcessFrame

\* return results
ProcessReturn ==
    /\ last_op = "loop"
    /\ ext_idx > Len(PdfPaths)
    /\ last_op' = "returned"
    /\ UNCHANGED <<call_log, target_files, ext_idx, counters, rows, running>>
    /\ ProcessFrame

NextProcess ==
    \/ ProcessStart
    \/ ProcessStop
    \/ ProcessFile
    \/ ProcessReturn

SpecProcess == InitProcess /\ [][NextProcess]_vars

\* ---------------------------------------------------------- config.py
\* AppSettings.blur_kernel_size and adaptive_threshold_block_size defaults
BLUR_DEFAULT == 3
BLOCK_DEFAULT == 11

MaxSettingsOps == 3
MaxSpin == 5

\* a value of config.json / .env: a number, or something int() rejects
NotANumber == [num |-> FALSE, v |-> 0]
Number(n) == [num |-> TRUE, v |-> n]
ConfigValues == {NotANumber} \cup {Number(n) : n \in -1..MaxSpin}

\* what the spin boxes of ConfigDialog accept: setRange(1, 99) and
\* setRange(3, 99); the step of 2 applies to the arrows only
BlurSpin == 1..MaxSpin
BlockSpin == 3..(MaxSpin + 1)

\* _coerce_odd
CoerceOdd(value, default) ==
    LET parsed == IF value.num THEN value.v ELSE default
        floored == IF parsed <= 1 THEN (IF default > 1 THEN default ELSE 3) ELSE parsed
    IN  IF floored % 2 = 0 THEN floored + 1 ELSE floored

\* the settings object and config.json after the latest operation
CurrentSettings == call_log[Len(call_log)]

InitSettings ==
    /\ IdleSession
    /\ IdleChain
    /\ IdleMemory

SettingsFrame ==
    UNCHANGED <<sa_counters, work_mode, signature_text, start_counters, last_op,
                target_files, batchVars, runVars, ocrVars, taskVars, ctxVars>>

\* load_settings: AppSettings(**data) runs the validators, then both sizes
\* are coerced once more against the declared defaults; at start-up the file
\* holds anything, later what save_settings wrote
LoadSettings ==
    /\ Len(call_log) < MaxSettingsOps
    /\ \E file_blur \in ConfigValues, file_block \in ConfigValues :
         /\ call_log /= <<>> =>
              /\ file_blur = CurrentSettings.file_blur
              /\ file_block = CurrentSettings.file_block
         /\ call_log' = Append(call_log,
              [op |-> "load_settings",
               blur |-> CoerceOdd(Number(CoerceOdd(file_blur, 3)), BLUR_DEFAULT),
               block |-> CoerceOdd(Number(CoerceOdd(file_block, 11)), BLOCK_DEFAULT),
               file_blur |-> file_blur, file_block |-> file_block])
    /\ SettingsFrame

\* edit_settings with the dialog accepted: the spin box values are assigned
\* to the settings object as they are, then save_settings
EditSettings ==
    /\ call_log /= <<>>
    /\ Len(call_log) < MaxSettingsOps
    /\ \E blur \in BlurSpin, block \in BlockSpin :
         call_log' = Append(call_log,
              [op |-> "edit_settings", blur |-> blur, block |-> block,
               file_blur |-> Number(blur), file_block |-> Number(block)])
    /\ SettingsFrame

\* save_settings(self.settings) from the other handlers
SaveSettings ==
    /\ call_log /= <<>>
    /\ Len(call_log) < MaxSettingsOps
    /\ call_log' = Append(call_log,
          [op |-> "save_settings",
           blur |-> CurrentSettings.blur, block |-> CurrentSettings.block,
           file_blur |-> Number(CurrentSettings.blur),
           file_block |-> Number(CurrentSettings.block)])
    /\ SettingsFrame

\* extract_text_with_ocr preprocesses a page with the sizes of SETTINGS
PreprocessPage ==
    /\ call_log /= <<>>
    /\ Len(call_log) < MaxSettingsOps
    /\ call_log' = Append(call_log, [CurrentSettings EXCEPT !.op = "page"])
    /\ SettingsFrame

NextSettings ==
    \/ LoadSettings
    \/ EditSettings
    \/ SaveSettings
    \/ PreprocessPage

SpecSettings == InitSettings /\ [][NextSettings]_vars

\* =================================================================
\* Properties of the OCR stage
\* =================================================================

\* the pages 1..n of path p, as a successful task concatenates them
RECURSIVE PagesOf(_, _)
PagesOf(p, n) == IF n = 0 THEN <<>> ELSE Append(PagesOf(p, n - 1), <<p, n>>)

AllNone(n) == [i \in 1..n |-> <<>>]

\* what the task for path p is due to return, read off the document alone
DueResult(p) ==
    IF docs[p].pages = 0
    THEN <<[diag |-> BLAD_PUSTY, body |-> <<>>, err |-> <<>>], "">>
    ELSE IF docs[p].failAt > 0
    THEN <<[diag |-> BLAD_TECHNICZNY, body |-> <<>>, err |-> <<p, docs[p].failAt>>], TRACEBACK>>
    ELSE <<[diag |-> "", body |-> PagesOf(p, docs[p].pages), err |-> <<>>], SUKCES>>

\* the results list exists from line 290 on
ResultsExist == opc \notin {"idle", "prepass"}

\* C1: at every point of extract_texts_with_ocr_parallel after the list is
\* created, and on return, the results list has exactly len(pdf_paths)
\* positions, and position i holds None or the result of the task for paths[i].
C1_ResultsAligned ==
    ResultsExist =>
        /\ Len(results) = Len(docs)
        /\ \A i \in 1..Len(results) :
              \/ results[i] = <<>>
              \/ /\ futures[i] = "finished"
                 /\ results[i] = DueResult(i)
        /\ opc = "dead" => results_holder = results

\* a cancelled call has returned a list that is partly filled
C1_Witness ==
    /\ opc = "dead"
    /\ cancel_event
    /\ Len(docs) = 2
    /\ results_holder[1] /= <<>>
    /\ results_holder[2] = <<>>

\* C2: a call that finds the cancel event already set returns len(pdf_paths)
\* absent entries and the pre-pass page sum; no file-task is started and no
\* progress event is emitted.
C2_CancelledBeforeStart ==
    /\ [][(opc = "prepass" /\ cancel_event /\ opc' /= "prepass") =>
            /\ opc' = "return"
            /\ results' = AllNone(Len(docs))
            /\ total_pages_ocr' = SumPages(docs, Len(docs))
            /\ work_queue' = <<>>
            /\ progress_queue' = progress_queue]_vars
    /\ []((opc \in {"return", "dead"} /\ next_submit = 1) =>
            /\ \A p \in Paths : futures[p] = "none" /\ emitted[p] = 0
            /\ progress_queue = <<>>
            /\ pages_done = 0
            /\ results = AllNone(Len(docs)))

\* stop() came so early that the call returned without submitting a task
C2_Witness ==
    /\ opc = "dead"
    /\ cancel_event
    /\ next_submit = 1
    /\ Len(docs) = 2
    /\ results_holder = <<<<>>, <<>>>>
    /\ total_pages_ocr = 2

\* C3: once the call has observed the cancel event set, no file-task that had
\* not started begins executing.
C3_NoStartAfterObserved ==
    [][observed => \A p \in Paths : futures[p] = "pending" => futures'[p] /= "running"]_vars

\* C4: in the returned list position i is absent if and only if the task for
\* paths[i] never started.
C4_AbsentIffNeverStarted ==
    opc = "return" =>
        \A p \in Paths : (results[p] = <<>>) <=> (futures[p] \in {"none", "pending", "cancelled"})

\* C5: in a run without cancellation a file whose recognition raises gets the
\* diagnostic text embedding the error, and every other file gets the result
\* of its own task.
C5_FailureIsolated ==
    (opc \in {"return", "dead"} /\ ~cancel_event) =>
        \A p \in Paths :
            /\ results[p] = DueResult(p)
            /\ docs[p].failAt > 0 =>
                  /\ results[p][1].diag = BLAD_TECHNICZNY
                  /\ results[p][1].err = <<p, docs[p].failAt>>

\* the first file failed, the second was recognised
C5_Witness ==
    /\ opc = "dead"
    /\ ~cancel_event
    /\ Len(docs) = 2
    /\ docs[1].failAt = 1
    /\ docs[2].failAt = 0 /\ docs[2].pages = 1
    /\ results_holder[1][1].diag = BLAD_TECHNICZNY
    /\ results_holder[2] = <<[diag |-> "", body |-> <<<<2, 1>>>>, err |-> <<>>], SUKCES>>

\* C6 as stated: a document of zero pages gives an empty text and a non-empty
\* diagnostic status other than the success sentinel.
C6_EmptyTextDiagnosticStatus ==
    \A p \in Paths :
        (docs[p].pages = 0 /\ futures[p] = "finished") =>
            /\ fresult[p][1] = EmptyText
            /\ fresult[p][2] \notin {"", SUKCES}

\* C6 amended: a document of zero pages gives the text "BLAD: Plik PDF jest
\* pusty lub uszkodzony." (no recognised page, not the engine-error text) and
\* the empty status, which is not the success sentinel; the task does not raise.
C6_DiagnosticTextEmptyStatus ==
    \A p \in Paths :
        (docs[p].pages = 0 /\ futures[p] \notin {"none", "pending", "cancelled"}) =>
            /\ tpc[p] \in {"empty", "done"}
            /\ futures[p] = "finished" =>
                  /\ fresult[p][1].diag = BLAD_PUSTY
                  /\ fresult[p][1].diag \notin {"", BLAD_TECHNICZNY}
                  /\ fresult[p][1].body = <<>>
                  /\ fresult[p][2] = ""
                  /\ fresult[p][2] /= SUKCES

C6_Witness ==
    \E p \in Paths : docs[p].pages = 0 /\ futures[p] = "finished" /\ fresult[p] /= <<>>

RECURSIVE SumEmitted(_)
SumEmitted(n) == IF n = 0 THEN 0 ELSE emitted[n] + SumEmitted(n - 1)

\* C7: a file-task puts exactly one ("page_done", 1) per recognised page, after
\* the page is recognised and before the next one is begun; a successful task
\* has put as many events as the document has pages, a task failing on page k
\* has put k-1.
C7_OneEventPerPage ==
    /\ \A i \in 1..Len(progress_queue) : progress_queue[i] = <<"page_done", 1>>
    /\ SumEmitted(Len(docs)) = pages_done + Len(progress_queue)
    /\ \A p \in Paths :
          /\ tpc[p] = "put" => (emitted[p] = Len(full_text[p]) - 1 /\ tpage[p] = Len(full_text[p]))
          /\ tpc[p] = "recog" => (emitted[p] = Len(full_text[p]) /\ tpage[p] = emitted[p] + 1)
          /\ (futures[p] = "finished" /\ fresult[p][2] = SUKCES) =>
                emitted[p] = docs[p].pages
          /\ (futures[p] = "finished" /\ fresult[p][1].diag = BLAD_TECHNICZNY) =>
                emitted[p] = fresult[p][1].err[2] - 1

\* a task failed on its second page after one event
C7_Witness ==
    \E p \in Paths :
        /\ futures[p] = "finished"
        /\ fresult[p][1].err = <<p, 2>>
        /\ emitted[p] = 1

\* C8: when run() starts extracting, no OCR file-task of the batch is still
\* executing, and the files are handled one at a time in sorted path order.
C8_ExtractionAfterOcr ==
    rpc \in {"extract", "done"} =>
        /\ RunningTasks = {}
        /\ \A i \in 1..Len(rows) : rows[i].path = i

\* =================================================================
\* Properties of the numbering counters
\* =================================================================

RECURSIVE LeadingDigits(_)
LeadingDigits(t) ==
    IF t /= <<>> /\ Head(t) \in {"0", "1", "2", "3", "4", "5", "6", "7", "8", "9"}
    THEN <<Head(t)>> \o LeadingDigits(Tail(t))
    ELSE <<>>

RECURSIVE DecimalValue(_)
DecimalValue(t) ==
    IF t = <<>> THEN 0
    ELSE 10 * DecimalValue(SubSeq(t, 1, Len(t) - 1))
         + (CHOOSE d \in 0..9 : <<"0", "1", "2", "3", "4", "5", "6", "7", "8", "9">>[d + 1] = t[Len(t)])

FallbackHead == <<"d", "o", "k", "u", "m", "e", "n", "t", "_", "d", "o", "_",
                  "w", "e", "r", "y", "f", "i", "k", "a", "c", "j", "i", "_">>

\* the number a file name carries: its leading digits, or the digits after
\* "dokument_do_weryfikacji_"
NumberOfName(name) ==
    IF Len(name) >= Len(FallbackHead) /\ SubSeq(name, 1, Len(FallbackHead)) = FallbackHead
    THEN DecimalValue(LeadingDigits(SubSeq(name, Len(FallbackHead) + 1, Len(name))))
    ELSE DecimalValue(LeadingDigits(name))

\* key of a mode: the mode, or "LP" for the empty mode
KeyOfMode(m) == IF m = <<>> THEN <<"L", "P">> ELSE m

ValueAt(c, k) == IF k \in DOMAIN c THEN c[k] ELSE 0

\* the positions of call_log whose call used key k
CallsOn(k) == {i \in 1..Len(call_log) : KeyOfMode(call_log[i].doc_type) = k}

\* C9: k successive calls on one key whose entry was c carry the numbers
\* c+1 .. c+k in call order, leave the entry at c+k and change no other key.
C9_SuccessiveNumbers ==
    \A k \in DOMAIN counters \cup DOMAIN start_counters \cup {<<"L", "P">>, <<"K", "P">>, <<"S", "A">>} :
        /\ \A i \in CallsOn(k) :
              NumberOfName(call_log[i].name)
                 = ValueAt(start_counters, k) + Cardinality({j \in CallsOn(k) : j <= i})
        /\ ValueAt(counters, k) = ValueAt(start_counters, k) + Cardinality(CallsOn(k))
        /\ CallsOn(k) = {} => (k \in DOMAIN counters <=> k \in DOMAIN start_counters)

\* two calls for KP around one for the empty mode, from an entry of 2
C9_Witness ==
    /\ Len(call_log) = 3
    /\ call_log[1].doc_type = <<"K", "P">>
    /\ call_log[2].doc_type = <<>>
    /\ call_log[3].doc_type = <<"K", "P">>
    /\ ValueAt(start_counters, <<"K", "P">>) = 2
    /\ NumberOfName(call_log[3].name) = 4

NeverLower(old, new) == \A k \in DOMAIN old \cup DOMAIN new : ValueAt(new, k) >= ValueAt(old, k)

\* C10 as stated: no operation on the counters of the session lowers a value.
C10_NeverDecreases ==
    [][NeverLower(counters, counters') /\ NeverLower(sa_counters, sa_counters')]_vars

\* C10 amended: a filename synthesis lowers no value: it raises the entry of
\* its mode by one and leaves the value of every other key as it was.
C10_SynthesisOnlyIncrements ==
    [][last_op' = "generate" =>
         LET old == IF work_mode = <<"S", "A">> THEN sa_counters ELSE counters
             new == IF work_mode = <<"S", "A">> THEN sa_counters' ELSE counters'
         IN  /\ NeverLower(counters, counters') /\ NeverLower(sa_counters, sa_counters')
             /\ ValueAt(new, KeyOfMode(work_mode)) = ValueAt(old, KeyOfMode(work_mode)) + 1
             /\ \A k \in (DOMAIN old \cup DOMAIN new) \ {KeyOfMode(work_mode)} :
                   ValueAt(new, k) = ValueAt(old, k)
             /\ IF work_mode = <<"S", "A">> THEN counters' = counters
                ELSE sa_counters' = sa_counters]_vars

\* a synthesis has run after the entry was edited to 2
C10_Witness ==
    /\ last_op = "generate"
    /\ ValueAt(counters, <<"K", "P">>) = 3
    /\ ValueAt(counters, <<"K", "P", "/", "2", "0", "2", "6">>) = 2

\* =================================================================
\* Properties of the file name
\* =================================================================

\* the parts of a list that are not empty, joined with "-"
RECURSIVE Dashed(_)
Dashed(parts) ==
    IF parts = <<>> THEN <<>>
    ELSE IF Head(parts) = <<>> THEN Dashed(Tail(parts))
    ELSE IF Dashed(Tail(parts)) = <<>> THEN Head(parts)
    ELSE Head(parts) \o <<"-">> \o Dashed(Tail(parts))

Cut(t, n) == IF Len(t) <= n THEN t ELSE SubSeq(t, 1, n)

\* the name the scheme prescribes for the number n and the metadata info
SchemeName(n, info) ==
    LET signature == Replace(Clean(info.sygnatura_sprawy), " ", "_")
        number == Replace(Clean(info.numer_dokumentu), " ", "-")
        sender == Cut(Replace(Upper(Clean(info.nadawca_odbiorca)), " ", "-"), 30)
        type == Replace(Upper(Clean(info.typ_dokumentu)), " ", "-")
        subject == Cut(Replace(Clean(info.w_sprawie), " ", "-"), 50)
        dashed == Dashed(<<number, sender, type, subject>>)
    IN  IF signature = <<>> /\ dashed = <<>>
        THEN FallbackHead \o Str(n) \o <<".", "p", "d", "f">>
        ELSE Str(n)
             \o (IF signature = <<>> THEN <<>> ELSE <<"_">> \o signature)
             \o (IF dashed = <<>> THEN <<>> ELSE <<"_">> \o dashed)
             \o <<".", "p", "d", "f">>

TestInfo ==
    [sygnatura_sprawy |-> <<"S", "y", "g", "n", "a", "t", "u", "r", "a">>, numer_dokumentu |-> <<"1", "2", "3">>, nadawca_odbiorca |-> <<"M", "i", "n", "i", "s", "t", "e", "r", "s", "t", "w", "o">>,
     typ_dokumentu |-> <<"U", "m", "o", "w", "a">>, w_sprawie |-> <<"w", " ", "s", "p", "r", "a", "w", "i", "e">>]

TestName == <<"1", "_", "S", "y", "g", "n", "a", "t", "u", "r", "a", "_", "1", "2", "3", "-", "M", "I", "N", "I", "S", "T", "E", "R", "S", "T", "W", "O", "-", "U", "M", "O", "W", "A", "-", "w", "-", "s", "p", "r", "a", "w", "i", "e", ".", "p", "d", "f">>

\* C11: the returned name is the new counter value, then "_" and the signature
\* when it is not empty, then "_" and the non-empty ones of number, upper-cased
\* sender cut to 30, upper-cased type and subject cut to 50 joined with "-",
\* then ".pdf"; with nothing left after sanitization it is the fallback name
\* of the number. The example of the test suite gives
\* "1_Sygnatura_123-MINISTERSTWO-UMOWA-w-sprawie.pdf".
C11_NameScheme ==
    \A i \in 1..Len(call_log) :
        "info" \in DOMAIN call_log[i] =>
            LET n == ValueAt(counters, KeyOfMode(call_log[i].doc_type))
            IN  /\ n = ValueAt(start_counters, KeyOfMode(call_log[i].doc_type)) + 1
                /\ call_log[i].name = SchemeName(n, call_log[i].info)
                /\ (call_log[i].info = TestInfo /\ n = 1) => call_log[i].name = TestName

\* the example of the test suite on an empty counters map
C11_Witness ==
    /\ Len(call_log) = 1
    /\ "info" \in DOMAIN call_log[1]
    /\ start_counters = EmptyMap
    /\ call_log[1].info = TestInfo
    /\ call_log[1].name = TestName

\* C12: no two generate_new_filename calls that share one counters map return
\* the same file name, whatever their modes and metadata.
C12_NamesDistinct ==
    \A i, j \in 1..Len(call_log) : i /= j => call_log[i].name /= call_log[j].name

\* =================================================================
\* Properties of the extraction chain

\* the statistical stage has just produced a date
StatisticalDate == epc = "smart" /\ nlp_model /\ ex_info["data"] /= <<>>

\* C13: once one of the six fields of the record holds a non-empty value
\* after a stage, no later stage changes it; and a non-empty date of the
\* statistical extractor is the date of the returned record
C13_FirstNonEmptyWins ==
    /\ [][\A key \in INFO_FIELDS :
            (key \in DOMAIN ex_info /\ ex_info[key] /= <<>>) => ex_info'[key] = ex_info[key]]_vars
    /\ [](StatisticalDate => [](epc = "returned" => ex_info["data"] = NER_VALUE))

\* a record returned with the date of the statistical extractor although the
\* accepted answer of the assistant had a date of its own
C13_Witness ==
    /\ epc = "returned"
    /\ nlp_model
    /\ ex_info["data"] = NER_VALUE
    /\ llm_response.kind = "dict"
    /\ ~llm_results.none
    /\ DictGet(llm_results.metadata, "data") = LLM_DATE

\* the non-status fields of the returned record whose value is empty
EmptyFields == {key \in INFO_FIELDS : ex_info[key] = <<>>}

\* C14 as stated: in every returned record status is "OK" if and only if
\* colors is empty and the needs-completion value otherwise, colors being
\* exactly the non-status fields whose final value is empty
C14_StatusOkIffNoColors ==
    epc = "returned" =>
        /\ ex_info["colors"] = EmptyFields
        /\ ex_info["status"] = STATUS_OK <=> ex_info["colors"] = {}
        /\ ex_info["colors"] /= {} => ex_info["status"] = STATUS_INCOMPLETE

\* C14 amended: in every returned record colors is exactly the set of
\* non-status fields whose final value is empty; status is the
\* needs-completion value if and only if colors is non-empty; with colors
\* empty it is "OK" when the statistical extractor was available and the
\* error value when it was not
C14_StatusByColors ==
    epc = "returned" =>
        /\ ex_info["colors"] = EmptyFields
        /\ ex_info["status"] = STATUS_INCOMPLETE <=> ex_info["colors"] /= {}
        /\ ex_info["colors"] = {} =>
              ex_info["status"] = IF nlp_model THEN STATUS_OK ELSE STATUS_ERROR

\* a record returned complete by a chain that had no statistical extractor
C14_Witness ==
    /\ epc = "returned"
    /\ ~nlp_model
    /\ ex_info["colors"] = {}

\* the generative stage raises or yields no result: the model is not loaded,
\* the prompt or the generation raise, the response does not parse to an
\* object, or the object fails the validation
GenerativeFailed(response) ==
    \/ response.kind /= "dict"
    \/ ~ValidateMetadata(RenameTemat(response.metadata))

\* C15: when the generative stage raises or yields no result, the function
\* goes on to its finalization without raising and every field of the record
\* keeps the value it had before the stage
C15_FailedStageKeepsRecord ==
    [][(epc = "llm" /\ llm_processor /\ GenerativeFailed(llm_response'))
          => (epc' = "final" /\ ex_info' = ex_info)]_vars

\* an answer with a malformed date was discarded although the record had no
\* date yet
C15_Witness ==
    /\ epc = "final"
    /\ llm_response.kind = "dict"
    /\ llm_results.none
    /\ DictGet(llm_response.metadata, "data") = LLM_VALUE
    /\ ex_info["data"] = <<>>
    /\ ex_info["typ_dokumentu"] = <<>>

\* the value of the model's output for a field of the record; the prompt
\* names the subject "temat"
ModelValue(metadata, key) ==
    IF key = "w_sprawie" /\ "temat" \in DOMAIN metadata
    THEN metadata["temat"]
    ELSE DictGet(metadata, key)

\* C16: when the output of the generative stage is accepted, each of
\* document type, date, sender/recipient, subject and document number that is
\* empty in the record and non-empty in the output takes the model's value
C16_AcceptedOutputMerged ==
    [][(epc = "llm" /\ llm_processor /\ ~GenerativeFailed(llm_response'))
          => \A key \in LLM_MERGED :
                (ex_info[key] = <<>> /\ ModelValue(llm_response'.metadata, key) /= <<>>)
                   => ex_info'[key] = ModelValue(llm_response'.metadata, key)]_vars

\* C18: as the last stage, with or without the generative stage, every field
\* still empty or shorter than 3 characters is looked up in the correction
\* memory, and the returned record carries the suggestion found for it
C18_CorrectionsAppliedLast ==
    epc = "returned" =>
        \A key \in INFO_FIELDS :
            LET found == FindRelevantCorrections(corrections_memory, ex_text, key)
            IN  found.found => \/ ex_info[key] = found.value
                               \/ ~NeedsSuggestion(ex_info[key])

\* =================================================================
\* Properties of the assistant

\* YYYY-MM-DD
IsIsoDate(value) ==
    /\ Len(value) = 10
    /\ \A i \in 1..10 : IF i \in {5, 8} THEN value[i] = "-" ELSE IsDigit(value[i])

\* C17: every dictionary extract_smart_metadata returns has a date that is
\* empty or of the form YYYY-MM-DD, whatever the response and the correction
\* memory; a response whose date is neither yields no result and adds
\* nothing to the document memory
C17_ReturnedDateIsIso ==
    [][/\ ~llm_results'.none =>
             LET date == DictGet(llm_results'.metadata, "data")
             IN  date = <<>> \/ IsIsoDate(date)
       /\ (/\ llm_response'.kind = "dict"
           /\ DictGet(llm_response'.metadata, "data") /= <<>>
           /\ ~IsIsoDate(DictGet(llm_response'.metadata, "data")))
             => (llm_results'.none /\ document_memory' = document_memory)]_vars

\* =================================================================
\* Properties of the analyzer's memory

\* C19: after any sequence of add_document_to_memory and
\* add_correction_to_memory calls, the document collection the analyzer
\* holds (and searches) and the one it persists have at most 100 entries,
\* the correction collections at most 200, and they are the most recently
\* added entries in insertion order
C19_MemoryRingBounded ==
    /\ Len(document_memory) <= DOCUMENTS_KEPT
    /\ Len(corrections_memory) <= CORRECTIONS_KEPT
    /\ document_memory = LastN(StoredDocuments(TotalDocuments), DOCUMENTS_KEPT)
    /\ corrections_memory = LastN(StoredCorrections(TotalCorrections), CORRECTIONS_KEPT)
    /\ memory_file.documents = document_memory
    /\ memory_file.corrections = corrections_memory

\* the stored corrections that touch the field of the query, by position
Touching == {i \in 1..Len(corrections_memory) :
                call_log[1].metadata_key \in DOMAIN corrections_memory[i].changed_fields}

\* the similarity of a stored correction to the text of the query
Score(i) == FuzzySimilarity(corrections_memory[i].text_fragment, call_log[1].text)

\* the positions of the highest similarity among those touching the field
Best ==
    LET score == [i \in Touching |-> Score(i)]
    IN  {i \in Touching : \A j \in Touching : score[i][1] * score[j][2] >= score[j][1] * score[i][2]}

Earliest(positions) == CHOOSE i \in positions : \A j \in positions : i <= j

\* C20: find_relevant_corrections considers only the corrections that touch
\* the field; it returns the corrected value of the entry of the highest
\* similarity when that similarity is at least 0.7, the earliest stored among
\* equals, and nothing when the highest is below 0.7 or none touches the field
C20_BestCorrectionOverThreshold ==
    call_log /= <<>> =>
        IF Touching = {} THEN suggestion = [found |-> FALSE]
        ELSE LET first == Earliest(Best)
                 highest == Score(first)
             IN  IF highest[1] * 10 >= 7 * highest[2]
                 THEN suggestion =
                         [found |-> TRUE,
                          value |-> corrections_memory[first]
                                       .changed_fields[call_log[1].metadata_key].corrected]
                 ELSE suggestion = [found |-> FALSE]

\* two corrections of the field at the same highest similarity 0.7, behind a
\* closer correction of another field, and the earlier of the two returned
C20_Witness ==
    /\ call_log /= <<>>
    /\ Cardinality(Best) = 2
    /\ Score(Earliest(Best)) = <<7, 10>>
    /\ \E i \in 1..Len(corrections_memory) : i \notin Touching /\ Score(i) = <<1, 1>>
    /\ suggestion.found
    /\ suggestion.value = Str(Earliest(Best))

\* the stored documents whose similarity to the text is above 0.2
AboveThreshold ==
    {idx \in 1..Len(document_memory) :
        COSINE_OF[document_memory[idx].text_fragment] * 10 > 2 * 100}

\* C21: for a memory of n >= 1 documents find_similar_documents returns
\* exactly the stored entries that are among the top_n highest by similarity
\* and have similarity above 0.2, in strictly descending order of similarity,
\* each tagged with its similarity; a single stored document above 0.2 is
\* returned
C21_TopSimilarReturned ==
    (call_log /= <<>> /\ call_log[1].encodes /\ Len(document_memory) >= 1) =>
        LET similar_docs == call_log[1].similar_docs
            top_n == call_log[1].top_n
        IN  /\ Len(similar_docs) =
                  IF Cardinality(AboveThreshold) < top_n THEN Cardinality(AboveThreshold)
                  ELSE top_n
            /\ \A k \in 1..Len(similar_docs) :
                  \E idx \in AboveThreshold :
                     /\ similar_docs[k].document = document_memory[idx]
                     /\ similar_docs[k].similarity =
                           COSINE_OF[document_memory[idx].text_fragment]
            /\ \A idx \in AboveThreshold :
                  (\A k \in 1..Len(similar_docs) : similar_docs[k].document /= document_memory[idx])
                     => \A k \in 1..Len(similar_docs) :
                           similar_docs[k].similarity >=
                              COSINE_OF[document_memory[idx].text_fragment]
            /\ \A k \in 1..(Len(similar_docs) - 1) :
                  similar_docs[k].similarity > similar_docs[k + 1].similarity

\* the keys present in both records of the call with different values
Differing(call) ==
    {key \in DOMAIN call.original_metadata \cap DOMAIN call.corrected_metadata :
        call.original_metadata[key] /= call.corrected_metadata[key]}

\* C22: add_correction_to_memory appends exactly one entry whose changed
\* fields are exactly the keys present in both records with different values,
\* each with its original and corrected value, and whose fragment is the
\* first 1000 characters, and returns true; when there is no such key it
\* returns false and leaves both memories and the persisted file unchanged
C22_CorrectionDiffStored ==
    [][call_log' /= call_log =>
          LET call == call_log'[1]
          IN  IF Differing(call) /= {}
              THEN /\ call.returned
                   /\ corrections_memory' =
                         Append(corrections_memory,
                                [text_fragment |->
                                    SubSeq(call.text_fragment, 1,
                                           IF Len(call.text_fragment) < 1000
                                           THEN Len(call.text_fragment) ELSE 1000),
                                 changed_fields |->
                                    [key \in Differing(call) |->
                                        [original |-> call.original_metadata[key],
                                         corrected |-> call.corrected_metadata[key]]]])
              ELSE /\ ~call.returned
                   /\ UNCHANGED <<corrections_memory, document_memory, memory_file>>]_vars

\* a correction of one field out of two, on a fragment longer than 1000
\* characters, appended to a memory that held corrections
C22_Witness ==
    /\ call_log /= <<>>
    /\ call_log[1].returned
    /\ Len(call_log[1].text_fragment) > 1000
    /\ DOMAIN call_log[1].original_metadata = CorrectionKeys
    /\ DOMAIN call_log[1].corrected_metadata = CorrectionKeys
    /\ Len(corrections_memory) = 3
    /\ DOMAIN corrections_memory[3].changed_fields = {"pole"}
    /\ Len(corrections_memory[3].text_fragment) = 1000

\* =================================================================
\* Properties of the archive copy

\* name with every character outside [A-Za-z0-9._-] replaced by "_"
Underscored(name) ==
    [i \in 1..Len(name) |->
        IF \/ name[i] \in {LowerCase[k] : k \in 1..26}
           \/ name[i] \in {UpperCase[k] : k \in 1..26}
           \/ name[i] \in {Digits[k] : k \in 1..10}
           \/ name[i] \in {".", "_", "-"}
        THEN name[i] ELSE "_"]

\* C23: handle_file_copy replaces every character of the name outside
\* [A-Za-z0-9._-] by "_", one for one; when it returns a name r, r has only
\* characters of that set and a copy of src exists at dest/r; when it
\* returns nothing, no file was created in dest
C23_SanitizedCopy ==
    [][call_log' /= call_log =>
          LET call == call_log'[Len(call_log')]
          IN  IF call.returned /= <<>>
              THEN /\ call.returned = Underscored(call.filename)
                   /\ call.returned \in DOMAIN target_files'
                   /\ target_files'[call.returned] = call.src
              ELSE target_files' = target_files]_vars

\* =================================================================
\* Properties of a batch run

\* the input directory as it is now: the directory written to when it is the
\* archive target, and otherwise as the run found it
InputDirNow ==
    IF call_log[1].output_dir THEN call_log[1].input_files ELSE target_files

\* C24: after a batch run every file that was in the input directory before
\* the run is still there with unchanged content, for every choice of output
\* directory, the empty one (input directory as archive target) included
C24_InputFilesKept ==
    last_op \in {"returned", "raised"} =>
        \A name \in DOMAIN call_log[1].input_files :
            /\ name \in DOMAIN InputDirNow
            /\ InputDirNow[name] = call_log[1].input_files[name]

\* C25: a batch run without cancellation returns exactly one row per input
\* PDF, in sorted path order, whatever recognition, extraction,
\* filename-synthesis (key or type error) or archiving failures occur for
\* single files; no such failure ends the run early
C25_OneRowPerFile ==
    (last_op \in {"returned", "raised"} /\ running) =>
        /\ last_op = "returned"
        /\ Len(rows) = Len(PdfPaths)
        /\ \A i \in 1..Len(rows) : rows[i].path = PdfPaths[i] /\ rows[i].idx = i

\* =================================================================
\* Properties of the settings

OddKernel(v) == v >= 3 /\ v % 2 = 1

\* C26: whenever a page is preprocessed, the blur kernel size and the
\* adaptive-threshold block size in effect are odd integers of at least 3,
\* after any sequence of load_settings, edits in the settings dialog and
\* save_settings
C26_OddKernelSizes ==
    \A i \in 1..Len(call_log) :
        call_log[i].op = "page" =>
            /\ OddKernel(call_log[i].blur)
            /\ OddKernel(call_log[i].block)

\* the part that holds: the sizes load_settings leaves are odd and at least 3
C26_LoadedSizesOdd ==
    \A i \in 1..Len(call_log) :
        call_log[i].op = "load_settings" =>
            /\ OddKernel(call_log[i].blur)
            /\ OddKernel(call_log[i].block)

\* =================================================================
\* Properties of the progress aggregate

\* C27: when run() emits finished, every page_done event put on the progress
\* queue by any OCR task has been consumed by the draining loop, so the last
\* reported pagesDone equals the number of events emitted, under every
\* interleaving, stop() included
C27_AllEventsConsumed ==
    rpc = "done" =>
        /\ progress_queue = <<>>
        /\ pages_done = SumEmitted(Len(docs))
        /\ progress_log = <<SumEmitted(Len(docs)), total_pages>>

\* the part that holds: pagesDone never decreases once the run has begun, and
\* it changes only in the step of the draining loop that takes an event
C27_OnlyLoopAdvances ==
    [][pages_done' /= pages_done =>
          /\ rpc = "get"
          /\ progress_queue /= <<>>
          /\ pages_done' = pages_done + 1]_vars

\* the former also holds as long as stop() is never requested
C27_ConsumedUnlessStopped ==
    (rpc = "done" /\ running) =>
        /\ progress_queue = <<>>
        /\ pages_done = SumEmitted(Len(docs))

\* =================================================================
\* Properties of a cancelled run

\* the files whose OCR result is absent from the list run() received
AbsentResults == {p \in 1..Len(results_holder) : results_holder[p] = None}

\* C28: when stop() is requested during the OCR stage, for every file whose
\* OCR result is absent no counter is incremented, no file name is
\* synthesized and no copy is written
C28_AbsentFilesSkipped ==
    rpc \in {"extract", "done"} =>
        /\ \A i \in 1..Len(rows) : rows[i].path \notin AbsentResults
        /\ \A name \in DOMAIN target_files : target_files[name] \notin AbsentResults
        /\ ValueAt(WorkerCounters, KeyOfMode(work_mode)) = Len(rows)

\* =================================================================
\* Properties of the end of a run

\* stop() has been requested while the OCR thread of the run is alive
StoppedDuringOcr == ~running /\ rpc \in {"loop", "get"} /\ opc /= "dead"

\* C29: under fair scheduling of the threads every run() terminates, with or
\* without stop(), and emits exactly one of finished and error, once; after
\* stop() during the OCR stage the cancel event is eventually set
C29_TerminatesAndCancels ==
    /\ <>(rpc = "done")
    /\ [](finished_emits <= 1)
    /\ [](rpc = "done" => finished_emits = 1)
    /\ [](StoppedDuringOcr => <>cancel_event)

\* the parts that hold: termination and the single emission
C29_Terminates == <>[](rpc = "done" /\ finished_emits = 1)

\* a stop request that meets a later pass of the draining loop sets the event
C29_StopSeenByLoop ==
    [][(rpc = "get" /\ rpc' = "loop" /\ ~running) => cancel_event']_vars

\* =================================================================
\* Properties of the next-number field

\* the number the next generate_new_filename of the work mode will carry
NextSynthesisNumber == NextNum(MapOf(SessPair, work_mode), work_mode)

\* C30: the next-number field and filename synthesis agree: after
\* _on_signature_changed has set the next number n for the work mode, the
\* next generate_new_filename of that mode on the same counters map returns a
\* name numbered n, and after a synthesis _sync_number_edit shows the number
\* the following synthesis will use
C30_FieldAgreesWithSynthesis ==
    /\ (last_op = "edit" /\ IsDigitStr(signature_text) /\ ParseInt(signature_text) >= 1) =>
          NextSynthesisNumber = ParseInt(signature_text)
    /\ last_op = "generate" => signature_text = Str(NextSynthesisNumber)
====
